---- MODULE Spec2Model ----
(***************************************************************************)
(* Model of the RINEX navigation reader of pygnsslab                       *)
(* (src/src/pygnsslab/io/rinexnav/reader.py).                              *)
(*                                                                         *)
(* Text is modelled by TLA+ strings; a file content is the sequence of its *)
(* newline-free segments, i.e. what content.split('\n') returns (a content *)
(* that ends with a line terminator has an empty last segment).            *)
(*                                                                         *)
(* A Python float is modelled by its decimal value in normal form          *)
(*      s * 0.d1d2...dn * 10^x    (d1 # 0, dn # 0),                        *)
(* kept as [k, s, d, x] with d the digit string; binary rounding of the    *)
(* last place is not modelled.  NaN and +-inf are separate kinds.          *)
(***************************************************************************)
EXTENDS Integers, Sequences, FiniteSets, TLC

(***************************************************************************)
(* Python string primitives                                                *)
(***************************************************************************)
Min2(a, b) == IF a < b THEN a ELSE b

SetMin(S) == CHOOSE m \in S : \A n \in S : m <= n

SetMax(S) == CHOOSE m \in S : \A n \in S : m >= n

\* the character of s at the 1-based index i ("" outside the string)
Ch(s, i) == IF i >= 1 /\ i <= Len(s) THEN SubSeq(s, i, i) ELSE ""

\* s[a:b] with 0-based, clipped bounds
Slice(s, a, b) == IF a >= Len(s) \/ b <= a THEN "" ELSE SubSeq(s, a + 1, Min2(b, Len(s)))

\* s[a:]
SliceFrom(s, a) == Slice(s, a, Len(s))

IsSpace(c) == c \in {" ", "\t", "\r"}

IsDigit(c) == c \in {"0", "1", "2", "3", "4", "5", "6", "7", "8", "9"}

IsSign(c) == c \in {"+", "-"}

\* str.isspace() of a non-empty string
AllSpace(s) == \A i \in 1..Len(s) : IsSpace(Ch(s, i))

\* index of the first character of s at or after p that is not white space
RECURSIVE SkipSpace(_, _)
SkipSpace(s, p) == IF p > Len(s) \/ ~IsSpace(Ch(s, p)) THEN p ELSE SkipSpace(s, p + 1)

\* index of the last character of s at or before p that is not white space
RECURSIVE SkipSpaceBack(_, _)
SkipSpaceBack(s, p) == IF p < 1 \/ ~IsSpace(Ch(s, p)) THEN p ELSE SkipSpaceBack(s, p - 1)

\* str.strip()
Strip(s) == SubSeq(s, SkipSpace(s, 1), SkipSpaceBack(s, Len(s)))

\* str.lstrip()
LStrip(s) == SubSeq(s, SkipSpace(s, 1), Len(s))

\* str.rstrip()
RStrip(s) == SubSeq(s, 1, SkipSpaceBack(s, Len(s)))

\* sub in s
Contains(s, sub) ==
    \E i \in 1..(Len(s) - Len(sub) + 1) : SubSeq(s, i, i + Len(sub) - 1) = sub

\* s.endswith(suf)
EndsWith(s, suf) ==
    Len(s) >= Len(suf) /\ SubSeq(s, Len(s) - Len(suf) + 1, Len(s)) = suf

UpperCh(c) ==
    CASE c = "e" -> "E" [] c = "n" -> "N" [] c = "d" -> "D" [] c = "o" -> "O"
      [] c = "f" -> "F" [] c = "h" -> "H" [] c = "a" -> "A" [] c = "r" -> "R"
      [] OTHER -> c

RECURSIVE Upper(_)
Upper(s) == IF s = "" THEN "" ELSE UpperCh(Ch(s, 1)) \o Upper(Tail(s))

\* 1-based index of the first c in s at or after p, 0 if there is none
RECURSIVE Find(_, _, _)
Find(s, c, p) == IF p > Len(s) THEN 0 ELSE IF Ch(s, p) = c THEN p ELSE Find(s, c, p + 1)

\* s.replace('D', 'E')
RECURSIVE ReplaceDE(_)
ReplaceDE(s) ==
    LET p == Find(s, "D", 1)
    IN  IF p = 0 THEN s ELSE SubSeq(s, 1, p - 1) \o "E" \o ReplaceDE(SubSeq(s, p + 1, Len(s)))

\* s.replace('D ', 'D')
RECURSIVE ReplaceDSpace(_)
ReplaceDSpace(s) ==
    LET p == Find(s, "D", 1)
    IN  IF p = 0 THEN s
        ELSE IF Ch(s, p + 1) = " " THEN SubSeq(s, 1, p) \o ReplaceDSpace(SubSeq(s, p + 2, Len(s)))
        ELSE SubSeq(s, 1, p) \o ReplaceDSpace(SubSeq(s, p + 1, Len(s)))

\* s.replace(' ', '')
RECURSIVE RemoveSpaces(_)
RemoveSpaces(s) ==
    LET p == Find(s, " ", 1)
    IN  IF p = 0 THEN s ELSE SubSeq(s, 1, p - 1) \o RemoveSpaces(SubSeq(s, p + 1, Len(s)))

\* number of consecutive decimal digits of s from the 1-based position p on
RECURSIVE DigitRun(_, _)
DigitRun(s, p) == IF p < 1 \/ p > Len(s) \/ ~IsDigit(Ch(s, p)) THEN 0 ELSE 1 + DigitRun(s, p + 1)

DigitVal(c) ==
    CASE c = "0" -> 0 [] c = "1" -> 1 [] c = "2" -> 2 [] c = "3" -> 3 [] c = "4" -> 4
      [] c = "5" -> 5 [] c = "6" -> 6 [] c = "7" -> 7 [] c = "8" -> 8 [] c = "9" -> 9

\* leading zeros of a digit string
RECURSIVE LeadingZeros(_)
LeadingZeros(d) == IF d = "" \/ Ch(d, 1) # "0" THEN 0 ELSE 1 + LeadingZeros(Tail(d))

\* trailing zeros of a digit string
RECURSIVE TrailingZeros(_)
TrailingZeros(d) ==
    IF d = "" \/ Ch(d, Len(d)) # "0" THEN 0 ELSE 1 + TrailingZeros(SubSeq(d, 1, Len(d) - 1))

\* largest magnitude kept exactly when a digit string is read as an integer
IntCap == 999999

\* value of a digit string, saturated at IntCap
RECURSIVE DigitsToInt(_)
DigitsToInt(d) ==
    IF d = "" THEN 0
    ELSE IF Len(d) - LeadingZeros(d) > 6 THEN IntCap
    ELSE 10 * DigitsToInt(SubSeq(d, 1, Len(d) - 1)) + DigitVal(Ch(d, Len(d)))

(***************************************************************************)
(* Python float and int                                                    *)
(***************************************************************************)
NaN == [k |-> "nan", s |-> 1, d |-> "", x |-> 0]

Zero == [k |-> "num", s |-> 1, d |-> "", x |-> 0]

Inf(sg) == [k |-> "inf", s |-> sg, d |-> "", x |-> 0]

\* decimal exponent range of an IEEE double: above -> inf, below -> 0.0
MaxExp10 == 309

MinExp10 == -323

\* the float  sg * 0.core * 10^x, within the range of a double
FloatRanged(sg, core, x) ==
    IF x > MaxExp10 THEN Inf(sg)
    ELSE IF x = MaxExp10 /\ (DigitVal(Ch(core, 1)) >= 2
                             \/ (Len(core) >= 2 /\ DigitVal(Ch(core, 2)) >= 8)) THEN Inf(sg)
    ELSE IF x < MinExp10 THEN Zero
    ELSE [k |-> "num", s |-> sg, d |-> core, x |-> x]

\* digits without its lz leading and tz trailing zeros, as a float
FloatTrimmed(sg, digits, e10, lz, tz) ==
    IF lz = Len(digits) THEN Zero
    ELSE FloatRanged(sg, SubSeq(digits, lz + 1, Len(digits) - tz), (Len(digits) - lz) + e10)

\* the float  sg * digits * 10^e10  (digits read as an integer)
MkFloat(sg, digits, e10) ==
    FloatTrimmed(sg, digits, e10, LeadingZeros(digits), TrailingZeros(digits))

\* v * 10^n as a float product
Scale(v, n) ==
    IF v.k # "num" \/ v.d = "" THEN v ELSE MkFloat(v.s, v.d, v.x - Len(v.d) + n)

Returned(v) == [exc |-> "none", v |-> v]

Raised(e) == [exc |-> e, v |-> NaN]

\* try: return r / except ValueError: otherwise
Try(r, otherwise) == IF r.exc = "none" THEN r ELSE otherwise

\* float(): the exponent digits from pD on must end the text
FloatExponent(t, sg, digits, nf, pD, esg) ==
    IF DigitRun(t, pD) > 0 /\ pD + DigitRun(t, pD) = Len(t) + 1
    THEN Returned(MkFloat(sg, digits, esg * DigitsToInt(SubSeq(t, pD, Len(t))) - nf))
    ELSE Raised("ValueError")

\* float(): after the integer and fraction digits (nf of them fraction digits), at pE
FloatTail(t, sg, digits, nf, pE) ==
    IF digits = "" THEN Raised("ValueError")
    ELSE IF Ch(t, pE) \in {"e", "E"}
    THEN FloatExponent(t, sg, digits, nf,
                       IF IsSign(Ch(t, pE + 1)) THEN pE + 2 ELSE pE + 1,
                       IF Ch(t, pE + 1) = "-" THEN -1 ELSE 1)
    ELSE IF pE = Len(t) + 1 THEN Returned(MkFloat(sg, digits, 0 - nf))
    ELSE Raised("ValueError")

\* float(): the nf fraction digits from pF on
FloatFraction(t, sg, intd, pF, nf) ==
    FloatTail(t, sg, intd \o SubSeq(t, pF, pF + nf - 1), nf, pF + nf)

\* float(): the ni integer digits from p1 on and an optional point
FloatInteger(t, sg, p1, ni) ==
    FloatFraction(t, sg, SubSeq(t, p1, p1 + ni - 1),
                  IF Ch(t, p1 + ni) = "." THEN p1 + ni + 1 ELSE p1 + ni,
                  IF Ch(t, p1 + ni) = "." THEN DigitRun(t, p1 + ni + 1) ELSE 0)

\* float(): the optional sign of the stripped text
FloatSign(t) ==
    FloatInteger(t, IF Ch(t, 1) = "-" THEN -1 ELSE 1,
                 IF IsSign(Ch(t, 1)) THEN 2 ELSE 1,
                 DigitRun(t, IF IsSign(Ch(t, 1)) THEN 2 ELSE 1))

\* float(text): optional sign, digits with an optional point, optional exponent
PyFloat(text) == FloatSign(Strip(text))

\* int(): the digits after the optional sign must end the text
IntDigits(t, sg, p1) ==
    IF DigitRun(t, p1) > 0 /\ p1 + DigitRun(t, p1) = Len(t) + 1
    THEN Returned(sg * DigitsToInt(SubSeq(t, p1, Len(t))))
    ELSE Raised("ValueError")

\* int(): the optional sign of the stripped text
IntSign(t) ==
    IntDigits(t, IF Ch(t, 1) = "-" THEN -1 ELSE 1, IF IsSign(Ch(t, 1)) THEN 2 ELSE 1)

\* int(text): optional sign and decimal digits
PyInt(text) == IntSign(Strip(text))

\* the integer part of a non-negative finite float (saturated at IntCap)
FloatToInt(v) ==
    IF v.d = "" \/ v.x <= 0 THEN 0
    ELSE IF v.x > 6 THEN IntCap
    ELSE DigitsToInt(SubSeq(v.d \o "000000", 1, v.x))

\* int((v - int(v)) * 1e6) of a non-negative finite float
FloatMicros(v) ==
    IF v.d = "" \/ v.x > 6 THEN 0
    ELSE IF v.x >= 0 THEN DigitsToInt(SubSeq(v.d \o "000000000000", v.x + 1, v.x + 6))
    ELSE IF v.x <= -6 THEN 0
    ELSE DigitsToInt(SubSeq(v.d \o "000000", 1, 6 + v.x))

(***************************************************************************)
(* The fixed-field numeric parsers                                         *)
(***************************************************************************)
\* (?:[eEdD][-+]?\d+)? at r, with the exponent digits from r2 on: length of the match
PatternExponent(s, r, r2) ==
    IF Ch(s, r) \in {"e", "E", "d", "D"} /\ DigitRun(s, r2) > 0
    THEN (r2 - r) + DigitRun(s, r2) ELSE 0

\* the sign, a mantissa of mant characters at q, and the optional exponent
PatternTotal(s, p, q, mant) ==
    IF mant = 0 THEN 0
    ELSE (q - p) + mant
             + PatternExponent(s, q + mant,
                               IF IsSign(Ch(s, q + mant + 1)) THEN q + mant + 2 ELSE q + mant + 1)

\* (?:\d+(?:\.\d*)?|\.\d+) at q, ni digits found there: length of the match
PatternMantissa(s, q, ni) ==
    IF ni > 0
    THEN (IF Ch(s, q + ni) = "." THEN ni + 1 + DigitRun(s, q + ni + 1) ELSE ni)
    ELSE IF Ch(s, q) = "." /\ DigitRun(s, q + 1) > 0 THEN 1 + DigitRun(s, q + 1)
    ELSE 0

\* the pattern at p with its mantissa at q
PatternFrom(s, p, q) == PatternTotal(s, p, q, PatternMantissa(s, q, DigitRun(s, q)))

\* length of the match of [-+]?(?:\d+(?:\.\d*)?|\.\d+)(?:[eEdD][-+]?\d+)? at p, 0 if none
FloatPatternAt(s, p) == PatternFrom(s, p, IF IsSign(Ch(s, p)) THEN p + 1 ELSE p)

\* the first of the matches that start at the positions ps
FirstMatch(s, ps) ==
    IF ps = {} THEN "" ELSE SubSeq(s, SetMin(ps), SetMin(ps) + FloatPatternAt(s, SetMin(ps)) - 1)

\* re.findall(pattern, s)[0], or "" when nothing matches
FirstFloatPattern(s) == FirstMatch(s, {p \in 1..Len(s) : FloatPatternAt(s, p) > 0})

\* the text of rest up to its first 'D' (at i2, 0 if none)
UpToD(rest, i2) == IF i2 = 0 THEN rest ELSE SubSeq(rest, 1, i2 - 1)

\* value_str.split('D')[0] and [1], the first 'D' being at i1
SplitAt(s, i1) ==
    <<SubSeq(s, 1, i1 - 1), UpToD(SubSeq(s, i1 + 1, Len(s)), Find(SubSeq(s, i1 + 1, Len(s)), "D", 1))>>

\* value_str.split('D')[0] and [1]
SplitD(s) == SplitAt(s, Find(s, "D", 1))

\* mantissa * (10 ** exponent)
SplitProduct(mantissa, exponent) ==
    IF exponent >= MaxExp10 THEN Raised("OverflowError")
    ELSE IF exponent < MinExp10 THEN Returned(IF mantissa.k = "num" THEN Zero ELSE NaN)
    ELSE Returned(Scale(mantissa, exponent))

\* re.match(r'^([+-]?\d+)', exponent_part): ne digits from p1 on
SplitExponent(mantissa, exponent_part, p1, ne) ==
    IF mantissa.exc # "none" \/ ne = 0 THEN Raised("pass")
    ELSE SplitProduct(mantissa.v,
                      (IF Ch(exponent_part, 1) = "-" THEN -1 ELSE 1)
                          * DigitsToInt(SubSeq(exponent_part, p1, p1 + ne - 1)))

\* float(parts[0]) and parts[1].strip()
SplitParts(mantissa, exponent_part) ==
    SplitExponent(mantissa, exponent_part,
                  IF IsSign(Ch(exponent_part, 1)) THEN 2 ELSE 1,
                  DigitRun(exponent_part, IF IsSign(Ch(exponent_part, 1)) THEN 2 ELSE 1))

\* the third strategy: mantissa * (10 ** exponent) after a split at 'D'
SplitStrategy(s) == SplitParts(PyFloat(SplitD(s)[1]), Strip(SplitD(s)[2]))

\* an attempt that is made only under its condition
When(cond, r) == IF cond THEN r ELSE Raised("ValueError")

\* the split strategy returns, raises OverflowError, or passes
SplitOr(r, otherwise) == IF r.exc # "pass" THEN r ELSE otherwise

\* the last resort: the first float-like pattern, NaN if there is none or it fails
LastResort(found) ==
    IF found # "" THEN Try(PyFloat(ReplaceDE(found)), Returned(NaN)) ELSE Returned(NaN)

\* the strategies of _parse_rinex_float, in order, on the stripped text
Strategies(s, hasD) ==
    Try(PyFloat(s),
    Try(When(hasD /\ (Contains(s, "D+") \/ Contains(s, "D-")), PyFloat(ReplaceDE(s))),
    Try(When(hasD /\ Contains(s, "D "), PyFloat(ReplaceDE(ReplaceDSpace(s)))),
    SplitOr(IF hasD THEN SplitStrategy(s) ELSE Raised("pass"),
    Try(PyFloat(RemoveSpaces(ReplaceDE(s))),
    LastResort(FirstFloatPattern(s)))))))

\* Rinex2NavReader._parse_rinex_float
ParseRinexFloat(value_str) ==
    IF value_str = "" \/ AllSpace(value_str) THEN Returned(Zero)
    ELSE Strategies(Strip(value_str), Find(Strip(value_str), "D", 1) # 0)

\* parse_sci_notation: a trailing sign after a signed exponent is removed
SciCleaned(e) ==
    IF EndsWith(e, "-") /\ Contains(e, "E-") THEN SubSeq(e, 1, Len(e) - 1)
    ELSE IF EndsWith(e, "+") /\ Contains(e, "E+") THEN SubSeq(e, 1, Len(e) - 1)
    ELSE e

\* Rinex3NavReader._parse_data.parse_sci_notation
ParseSciNotation(value_str) == PyFloat(SciCleaned(ReplaceDE(value_str)))

(***************************************************************************)
(* Sample file contents (tests/rinexnav/test_rinexnav.py), one string per  *)
(* line                                                                    *)
(***************************************************************************)
\* the RINEX 2.11 sample of test_rinex2_reader
rinex2_content ==
    << "     2.11           N: GPS NAV DATA                         RINEX VERSION / TYPE",
       "Converto v3.5.6     IGN                 20220102 000706 UTC PGM / RUN BY / DATE",
       "Linux 2.6.32-573.12.1.x86_64|x86_64|gcc|Linux 64|=+         COMMENT",
       "                                                            END OF HEADER",
       " 1 02  1  1  0  0  0.0 4.691267386079D-04-1.000444171950D-11 0.000000000000D+00",
       "    3.900000000000D+01-1.411250000000D+02 3.988380292697D-09-6.242942382352D-01",
       "   -7.363036274910D-06 1.121813920327D-02 4.695728421211D-06 5.153674995422D+03",
       "    5.184000000000D+05-3.166496753693D-08-1.036611240093D+00 1.955777406693D-07",
       "    9.864187694897D-01 2.997500000000D+02 8.840876015687D-01-8.133553386358D-09",
       "   -3.778728718817D-10 1.000000000000D+00 2.190000000000D+03 0.000000000000D+00",
       "    2.000000000000D+00 0.000000000000D+00 5.122274160385D-09 3.900000000000D+01",
       "    5.184000000000D+05",
       " 1 02  1  1  2  0  0.0 4.690550267696D-04-1.000444171950D-11 0.000000000000D+00",
       "    7.000000000000D+01-1.377812500000D+02 4.009809817518D-09 4.259599915377D-01",
       "   -7.105991244316D-06 1.121853594668D-02 4.127621650696D-06 5.153675922394D+03",
       "    5.256000000000D+05-8.381903171539D-08-1.036670036234D+00 1.229345798492D-07",
       "    9.864159884824D-01 3.122812500000D+02 8.840083845547D-01-8.161768150217D-09",
       "   -3.832302530871D-10 1.000000000000D+00 2.190000000000D+03 0.000000000000D+00",
       "    2.000000000000D+00 0.000000000000D+00 5.122274160385D-09 7.000000000000D+01",
       "    5.184300000000D+05" >>

\* the RINEX 3.04 sample of test_rinex3_reader
rinex3_content ==
    << "     3.04           N: GNSS NAV DATA    M: MIXED NAV DATA   RINEX VERSION / TYPE",
       "Alloy 5.44          Receiver Operator   20220101 000000 UTC PGM / RUN BY / DATE",
       "GPSA    .1211D-07  -.7451D-08  -.5960D-07   .1192D-06       IONOSPHERIC CORR",
       "GPSB    .1167D+06  -.2458D+06  -.6554D+05   .1114D+07       IONOSPHERIC CORR",
       "GAL     .8775D+02   .4180D+00  -.1074D-01   .0000D+00       IONOSPHERIC CORR",
       "QZSA    .1118D-07  -.4470D-07  -.4172D-06  -.4768D-06       IONOSPHERIC CORR",
       "QZSB    .9830D+05  -.3277D+05  -.1507D+07  -.8192D+07       IONOSPHERIC CORR",
       "GPUT  -.1862645149D-08 -.621724894D-14  61440 2191          TIME SYSTEM CORR",
       "GAUT   .1862645149D-08 -.888178420D-15 432000 2190          TIME SYSTEM CORR",
       "QZUT   .2793967724D-08  .000000000D+00  94208 2191          TIME SYSTEM CORR",
       "GPGA   .1979060471D-08 -.976996262D-14 518400 2190          TIME SYSTEM CORR",
       "    18    18  2185     7                                    LEAP SECONDS",
       "                                                            END OF HEADER",
       "G31 2022 01 01 00 00 00 -.157775823027D-03 -.181898940355D-11  .000000000000D+00",
       "      .110000000000D+02 -.170937500000D+02  .480234289400D-08 -.173098544978D+01",
       "     -.117905437946D-05  .104654430179D-01  .877678394318D-05  .515366246605D+04",
       "      .518400000000D+06  .204890966415D-07  .211722260728D+01 -.141561031342D-06",
       "      .954983160093D+00  .203406250000D+03  .359636360687D+00 -.795676000242D-08",
       "     -.496092092798D-09  .100000000000D+01  .219000000000D+04  .000000000000D+00",
       "      .200000000000D+01  .000000000000D+00 -.130385160446D-07  .110000000000D+02",
       "      .516102000000D+06  .400000000000D+01",
       "C01 2021 12 31 23 00 00 -.285546178930D-03  .402868849392D-10  .000000000000D+00",
       "      .100000000000D+01  .250171875000D+03 -.412517182996D-09  .329616550241D+00",
       "      .806059688330D-05  .611470197327D-03  .322125852108D-04  .649341227531D+04",
       "      .514800000000D+06 -.211410224438D-06  .302754416285D+01 -.167638063431D-06",
       "      .794697272388D-01 -.992296875000D+03 -.992867610818D+00  .158042297382D-08",
       "     -.118362073113D-08  .000000000000D+00  .834000000000D+03  .000000000000D+00",
       "      .200000000000D+01  .000000000000D+00 -.580000003580D-08 -.102000000000D-07",
       "      .514800000000D+06  .000000000000D+00",
       "R05 2021 12 31 23 45 00  .851778313518D-04  .909494701773D-12  .518370000000D+06",
       "     -.215384257812D+05 -.146265029907D-01 -.279396772385D-08  .000000000000D+00",
       "     -.136201572266D+05  .206674575806D+00  .279396772385D-08  .100000000000D+01",
       "     -.692044921875D+03 -.358163070679D+01 -.186264514923D-08  .000000000000D+00" >>

(***************************************************************************)
(* File content and header                                                 *)
(***************************************************************************)
\* the lines lo..hi of content, stripped on the left of the first and the right of the last
StripBetween(content, lo, hi) ==
    IF lo = hi THEN <<Strip(content[lo])>>
    ELSE <<LStrip(content[lo])>> \o SubSeq(content, lo + 1, hi - 1) \o <<RStrip(content[hi])>>

\* the lines from the first to the last of the non-blank lines idx
StripToNonBlank(content, idx) ==
    IF idx = {} THEN <<"">> ELSE StripBetween(content, SetMin(idx), SetMax(idx))

\* content.strip().split('\n') on the segments of content
StripSplit(content) ==
    StripToNonBlank(content, {n \in 1..Len(content) : Strip(content[n]) # ""})

\* the segments matched by re.compile(r".*END OF HEADER.*\n", re.IGNORECASE)
HeaderEndMatches(content) ==
    {n \in 1..(Len(content) - 1) : Contains(Upper(content[n]), "END OF HEADER")}

\* dict[key] = value
Put(dict, key, value) ==
    [n \in (DOMAIN dict) \cup {key} |-> IF n = key THEN value ELSE dict[n]]

EmptyDict == [n \in {} |-> 0]

\* dict.get(key, default)
Get(dict, key, default) == IF key \in DOMAIN dict THEN dict[key] ELSE default

\* v >= n for a float v and a small positive integer n
FloatGE(v, n) ==
    \/ v.k = "inf" /\ v.s = 1
    \/ v.k = "num" /\ v.s = 1 /\ FloatToInt(v) >= n

\* file_type: 'N' if "N:" is in the first line, else its column 20 if not blank, else 'N'
FileType(first_line, c) ==
    IF Contains(first_line, "N:") THEN "N" ELSE IF c # "" THEN c ELSE "N"

\* version, file_type (and file_type_full) from the first header line
FirstLineFields(first_line, full) ==
    IF full
    THEN [version |-> PyFloat(Slice(first_line, 0, 9)).v,
          file_type |-> FileType(first_line, Strip(Slice(first_line, 20, 21))),
          file_type_full |-> Strip(Slice(first_line, 20, 40))]
    ELSE [version |-> PyFloat(Slice(first_line, 0, 9)).v,
          file_type |-> FileType(first_line, Strip(Slice(first_line, 20, 21)))]

\* the PGM / RUN BY / DATE and COMMENT branches of a line with this label
CommonLabelled(header, line, label) ==
    IF Contains(label, "PGM / RUN BY / DATE")
    THEN Put(Put(Put(header, "program", Strip(Slice(line, 0, 20))),
                 "run_by", Strip(Slice(line, 20, 40))),
             "created", Strip(Slice(line, 40, 60)))
    ELSE IF Contains(label, "COMMENT")
    THEN Put(header, "comments", Get(header, "comments", <<>>) \o <<Strip(Slice(line, 0, 60))>>)
    ELSE header

\* the PGM / RUN BY / DATE and COMMENT branches, common to both header parsers
CommonHeaderLine(header, line) == CommonLabelled(header, line, Strip(SliceFrom(line, 60)))

\* the loop over the header lines after the first
RECURSIVE Rinex2HeaderLines(_, _, _)
Rinex2HeaderLines(header, lines, n) ==
    IF n > Len(lines) THEN header
    ELSE Rinex2HeaderLines(CommonHeaderLine(header, lines[n]), lines, n + 1)

\* _parse_header on the lines of the header
Rinex2HeaderOf(lines) ==
    IF PyFloat(Slice(lines[1], 0, 9)).exc # "none"
    THEN [exc |-> "ValueError", header |-> EmptyDict]
    ELSE [exc |-> "none",
          header |-> Rinex2HeaderLines(FirstLineFields(lines[1], FALSE), lines, 2)]

\* Rinex2NavReader._parse_header
Rinex2ParseHeader(header_content) == Rinex2HeaderOf(StripSplit(header_content))

\* the value of a conversion, 0.0 on ValueError
ValueOrZero(r) == IF r.exc = "none" THEN r.v ELSE Zero

\* float(t) if t else 0.0, with ValueError -> 0.0
FloatIfText(t) == IF t # "" THEN ValueOrZero(PyFloat(t)) ELSE Zero

\* a float header field: strip, replace 'D' by 'E', convert
FloatOrZero(text) == FloatIfText(ReplaceDE(Strip(text)))

\* the value of a conversion, 0 on ValueError
ValueOrZeroInt(r) == IF r.exc = "none" THEN r.v ELSE 0

\* int(text) if text else 0, with ValueError -> 0
IntOrZero(text) == IF Strip(text) # "" THEN ValueOrZeroInt(PyInt(text)) ELSE 0

\* self.header['leap_seconds'] = int(line[:6].strip())
LeapSeconds(header, r) ==
    IF r.exc = "none"
    THEN [exc |-> "none", header |-> Put(header, "leap_seconds", r.v)]
    ELSE [exc |-> "ValueError", header |-> header]

\* the branches of a v3/v4 header line with this label and corr_type
Rinex3Labelled(header, line, label, corr_type) ==
    IF Contains(label, "PGM / RUN BY / DATE") \/ Contains(label, "COMMENT")
    THEN [exc |-> "none", header |-> CommonLabelled(header, line, label)]
    ELSE IF Contains(label, "IONOSPHERIC CORR")
    THEN [exc |-> "none",
          header |-> Put(header, "ionospheric_corr",
                         Put(Get(header, "ionospheric_corr", EmptyDict), corr_type,
                             <<FloatOrZero(Slice(line, 5, 14)), FloatOrZero(Slice(line, 14, 23)),
                               FloatOrZero(Slice(line, 23, 32)), FloatOrZero(Slice(line, 32, 41))>>))]
    ELSE IF Contains(label, "TIME SYSTEM CORR")
    THEN [exc |-> "none",
          header |-> Put(header, "time_system_corr",
                         Put(Get(header, "time_system_corr", EmptyDict), corr_type,
                             [a0 |-> FloatOrZero(Slice(line, 5, 24)),
                              a1 |-> FloatOrZero(Slice(line, 24, 43)),
                              ref_time |-> IntOrZero(Slice(line, 43, 51)),
                              ref_week |-> IntOrZero(Slice(line, 51, 60))]))]
    ELSE IF Contains(label, "LEAP SECONDS") THEN LeapSeconds(header, PyInt(Slice(line, 0, 6)))
    ELSE [exc |-> "none", header |-> header]

\* one header line of a v3/v4 file: [exc, header]
Rinex3HeaderLine(header, line) ==
    Rinex3Labelled(header, line, Strip(SliceFrom(line, 60)), Strip(Slice(line, 0, 4)))

\* the loop over the header lines after the first, up to the first exception
RECURSIVE Rinex3HeaderLines(_, _, _)
Rinex3HeaderLines(r, lines, n) ==
    IF n > Len(lines) \/ r.exc # "none" THEN r
    ELSE Rinex3HeaderLines(Rinex3HeaderLine(r.header, lines[n]), lines, n + 1)

\* _parse_header on the lines of the header
Rinex3HeaderOf(lines) ==
    IF PyFloat(Slice(lines[1], 0, 9)).exc # "none"
    THEN [exc |-> "ValueError", header |-> EmptyDict]
    ELSE Rinex3HeaderLines([exc |-> "none", header |-> FirstLineFields(lines[1], TRUE)], lines, 2)

\* Rinex3NavReader._parse_header
Rinex3ParseHeader(header_content) == Rinex3HeaderOf(StripSplit(header_content))

(***************************************************************************)
(* datetime                                                                *)
(***************************************************************************)
IsLeapYear(y) == (y % 4 = 0 /\ y % 100 # 0) \/ y % 400 = 0

DaysInMonth(y, m) ==
    IF m = 2 THEN (IF IsLeapYear(y) THEN 29 ELSE 28)
    ELSE IF m \in {4, 6, 9, 11} THEN 30 ELSE 31

\* datetime(year, month, day, hour, minute, int(second), int((second - int(second)) * 1e6))
MakeEpoch(year, month, day, hour, minute, second) ==
    IF second.k = "inf" THEN [exc |-> "OverflowError", v |-> <<>>]
    ELSE IF second.k = "nan" \/ (second.s = -1 /\ second.d # "") THEN [exc |-> "ValueError", v |-> <<>>]
    ELSE IF /\ year >= 1 /\ year <= 9999
            /\ month >= 1 /\ month <= 12
            /\ day >= 1 /\ day <= DaysInMonth(year, month)
            /\ hour >= 0 /\ hour <= 23
            /\ minute >= 0 /\ minute <= 59
            /\ FloatToInt(second) <= 59
         THEN [exc |-> "none",
               v |-> <<year, month, day, hour, minute, FloatToInt(second), FloatMicros(second)>>]
    ELSE [exc |-> "ValueError", v |-> <<>>]

(***************************************************************************)
(* Record parsers                                                          *)
(***************************************************************************)
\* param_names of Rinex2NavReader._parse_data
param_names ==
    << "IODE", "Crs", "Delta_n", "M0",
       "Cuc", "e", "Cus", "sqrt_A",
       "Toe", "Cic", "OMEGA", "Cis",
       "i0", "Crc", "omega", "OMEGA_DOT",
       "IDOT", "L2_codes", "GPS_week", "L2_P_flag",
       "SV_accuracy", "SV_health", "TGD", "IODC",
       "Transmission_time", "Fit_interval" >>

column_starts == <<3, 22, 41, 60>>

column_ends == <<22, 41, 60, 79>>

\* the first exception among the results numbered bad, "none" if there is none
FirstOfBad(results, bad) == IF bad = {} THEN "none" ELSE results[SetMin(bad)].exc

\* the first exception among results, "none" if there is none
FirstExc(results) == FirstOfBad(results, {n \in 1..Len(results) : results[n].exc # "none"})

\* the value read from a stripped v2 field, NaN if it is empty: [exc, v]
Rinex2FieldValue(field) == IF field # "" THEN ParseRinexFloat(field) ELSE Returned(NaN)

\* the value read from slot k (0..3) of a v2 continuation line: [exc, v]
Rinex2Field(line, k) ==
    IF column_starts[k + 1] < Len(line)
    THEN Rinex2FieldValue(Strip(Slice(line, column_starts[k + 1], Min2(column_ends[k + 1], Len(line)))))
    ELSE Returned(NaN)

\* orbital_params[param_name] = param_value, NaN on ValueError: [exc, params]
Rinex2Store(params, param_name, value) ==
    IF value.exc = "none" THEN [exc |-> "none", params |-> Put(params, param_name, value.v)]
    ELSE IF value.exc = "ValueError" THEN [exc |-> "none", params |-> Put(params, param_name, NaN)]
    ELSE [exc |-> value.exc, params |-> params]

\* the loop over the four slots of a v2 continuation line: [exc, params]
RECURSIVE Rinex2Line(_, _, _, _)
Rinex2Line(r, line, k, param_index) ==
    IF k >= 4 \/ param_index + k >= Len(param_names) \/ r.exc # "none" THEN r
    ELSE Rinex2Line(Rinex2Store(r.params, param_names[param_index + k + 1], Rinex2Field(line, k)),
                    line, k + 1, param_index)

\* the loop over the 7 continuation lines of a v2 record: [exc, params]
RECURSIVE Rinex2Orbital(_, _, _, _, _)
Rinex2Orbital(lines, i, j, param_index, r) ==
    IF j > 7 \/ i + j >= Len(lines) \/ r.exc # "none" THEN r
    ELSE IF RStrip(lines[i + j + 1]) = "" THEN Rinex2Orbital(lines, i, j + 1, param_index, r)
    ELSE Rinex2Orbital(lines, i, j + 1, Min2(param_index + 4, Len(param_names)),
                       Rinex2Line(r, RStrip(lines[i + j + 1]), 0, param_index))

\* the outcome of a record whose parse raised e
Failed(e, sat_system) == [exc |-> e, sat_system |-> sat_system, record |-> EmptyDict]

\* record.update(orbital_params) of a v2 record
Rinex2Updated(record, orbital_params) ==
    IF orbital_params.exc # "none" THEN Failed(orbital_params.exc, "G")
    ELSE [exc |-> "none", sat_system |-> "G", record |-> orbital_params.params @@ record]

\* the v2 record from its epoch on
Rinex2Dated(lines, i, prn, epoch, sv_clock_bias, sv_clock_drift, sv_clock_drift_rate) ==
    IF epoch.exc # "none" THEN Failed(epoch.exc, "G")
    ELSE Rinex2Updated([PRN |-> prn, Epoch |-> epoch.v, Toc |-> epoch.v,
                        SV_clock_bias |-> sv_clock_bias,
                        SV_clock_drift |-> sv_clock_drift,
                        SV_clock_drift_rate |-> sv_clock_drift_rate],
                       Rinex2Orbital(lines, i, 1, 0, [exc |-> "none", params |-> EmptyDict]))

\* the v2 record from the conversions fs of the ten fields of its first line
Rinex2Fields(lines, i, fs) ==
    IF FirstExc(fs) # "none" THEN Failed(FirstExc(fs), "G")
    ELSE Rinex2Dated(lines, i, fs[1].v,
                     MakeEpoch(IF fs[2].v >= 80 THEN fs[2].v + 1900 ELSE fs[2].v + 2000,
                               fs[3].v, fs[4].v, fs[5].v, fs[6].v, fs[7].v),
                     fs[8].v, fs[9].v, fs[10].v)

\* prn, year, month, day, hour, minute, second and the three clock terms of a v2 first line
Rinex2FirstLine(line) ==
    << PyInt(Slice(line, 0, 2)), PyInt(Slice(line, 3, 5)), PyInt(Slice(line, 6, 8)),
       PyInt(Slice(line, 9, 11)), PyInt(Slice(line, 12, 14)), PyInt(Slice(line, 15, 17)),
       PyFloat(Slice(line, 17, 22)),
       ParseRinexFloat(Slice(line, 22, 41)), ParseRinexFloat(Slice(line, 41, 60)),
       ParseRinexFloat(Slice(line, 60, 79)) >>

\* the try block of Rinex2NavReader._parse_data for the record starting at lines[i]:
\* [exc, sat_system, record]
Rinex2Record(lines, i) == Rinex2Fields(lines, i, Rinex2FirstLine(RStrip(lines[i + 1])))

\* the (name, index) pairs of the record.update of each satellite system
GpsFields ==
    << <<"IODE", 0>>, <<"Crs", 1>>, <<"Delta_n", 2>>, <<"M0", 3>>,
       <<"Cuc", 4>>, <<"e", 5>>, <<"Cus", 6>>, <<"sqrt_A", 7>>,
       <<"Toe", 8>>, <<"Cic", 9>>, <<"OMEGA", 10>>, <<"Cis", 11>>,
       <<"i0", 12>>, <<"Crc", 13>>, <<"omega", 14>>, <<"OMEGA_DOT", 15>>,
       <<"IDOT", 16>>, <<"L2_codes", 17>>, <<"GPS_week", 18>>, <<"L2_P_flag", 19>>,
       <<"SV_accuracy", 20>>, <<"SV_health", 21>>, <<"TGD", 22>>, <<"IODC", 23>>,
       <<"Transmission_time", 24>>, <<"Fit_interval", 25>> >>

GlonassFields ==
    << <<"Tau", 0>>, <<"Gamma", 1>>, <<"tb", 2>>, <<"X", 3>>,
       <<"X_velocity", 4>>, <<"X_acceleration", 5>>, <<"health", 6>>, <<"Y", 7>>,
       <<"Y_velocity", 8>>, <<"Y_acceleration", 9>>, <<"frequency_number", 10>>, <<"Z", 11>>,
       <<"Z_velocity", 12>>, <<"Z_acceleration", 13>>, <<"Age", 14>> >>

BeidouFields ==
    << <<"AODE", 0>>, <<"Crs", 1>>, <<"Delta_n", 2>>, <<"M0", 3>>,
       <<"Cuc", 4>>, <<"e", 5>>, <<"Cus", 6>>, <<"sqrt_A", 7>>,
       <<"Toe", 8>>, <<"Cic", 9>>, <<"OMEGA", 10>>, <<"Cis", 11>>,
       <<"i0", 12>>, <<"Crc", 13>>, <<"omega", 14>>, <<"OMEGA_DOT", 15>>,
       <<"IDOT", 16>>, <<"BDT_week", 18>>, <<"SV_accuracy", 20>>, <<"SatH1", 21>>,
       <<"TGD1", 22>>, <<"TGD2", 23>>, <<"Transmission_time", 24>> >>

GalileoFields ==
    << <<"IODnav", 0>>, <<"Crs", 1>>, <<"Delta_n", 2>>, <<"M0", 3>>,
       <<"Cuc", 4>>, <<"e", 5>>, <<"Cus", 6>>, <<"sqrt_A", 7>>,
       <<"Toe", 8>>, <<"Cic", 9>>, <<"OMEGA", 10>>, <<"Cis", 11>>,
       <<"i0", 12>>, <<"Crc", 13>>, <<"omega", 14>>, <<"OMEGA_DOT", 15>>,
       <<"IDOT", 16>>, <<"Data_sources", 17>>, <<"GAL_week", 18>>, <<"SISA", 20>>,
       <<"SV_health", 21>>, <<"BGD_E5a_E1", 22>>, <<"BGD_E5b_E1", 23>>, <<"Transmission_time", 24>> >>

SystemFields(sat_system) ==
    IF sat_system \in {"G", "J"} THEN GpsFields
    ELSE IF sat_system = "R" THEN GlonassFields
    ELSE IF sat_system = "C" THEN BeidouFields
    ELSE IF sat_system = "E" THEN GalileoFields
    ELSE <<>>

\* NumLines with every record taken as 8 lines
NumLines_AllEight(sat_system) == 8

\* num_lines of a v3/v4 record
NumLines(sat_system) == IF sat_system \in {"R", "S"} THEN 4 ELSE 8

\* the value of a conversion, NaN on ValueError
ValueOrNaN(r) == IF r.exc = "none" THEN r.v ELSE NaN

\* the value of a stripped v3/v4 field, NaN if it is empty
Rinex3Field(param_str) ==
    IF param_str # "" THEN ValueOrNaN(ParseSciNotation(param_str)) ELSE NaN

\* what slot k (0..3) of a v3/v4 continuation line appends to orbital_params
Rinex3Slot(line, k) ==
    IF k * 19 + 4 < Len(line) /\ k * 19 + 4 + 19 <= Len(line)
    THEN <<Rinex3Field(Strip(Slice(line, k * 19 + 4, k * 19 + 4 + 19)))>>
    ELSE <<>>

\* the loop over the four slots of a v3/v4 continuation line
RECURSIVE Rinex3Line(_, _)
Rinex3Line(line, k) == IF k >= 4 THEN <<>> ELSE Rinex3Slot(line, k) \o Rinex3Line(line, k + 1)

\* orbital_params: the loop over the continuation lines of the v3/v4 record at lines[i]
RECURSIVE Rinex3Orbital(_, _, _, _)
Rinex3Orbital(lines, i, j, num_lines) ==
    IF j >= num_lines THEN <<>>
    ELSE (IF i + j < Len(lines) /\ Strip(lines[i + j + 1]) # ""
          THEN Rinex3Line(lines[i + j + 1], 0) ELSE <<>>)
             \o Rinex3Orbital(lines, i, j + 1, num_lines)

\* orbital_params[index] if len(orbital_params) > index else np.nan
Rinex3Param(orbital_params, index) ==
    IF Len(orbital_params) > index THEN orbital_params[index + 1] ELSE NaN

\* the argument of record.update for the (name, index) pairs of fields
Rinex3Update(fields, orbital_params) ==
    [name \in {fields[m][1] : m \in 1..Len(fields)} |->
        Rinex3Param(orbital_params, fields[CHOOSE m \in 1..Len(fields) : fields[m][1] = name][2])]

\* the v3/v4 record from its epoch on
Rinex3Dated(lines, i, sat_system, prn, epoch, clock) ==
    IF epoch.exc # "none" THEN Failed(epoch.exc, sat_system)
    ELSE [exc |-> "none", sat_system |-> sat_system,
          record |-> Rinex3Update(SystemFields(sat_system),
                                  Rinex3Orbital(lines, i, 1, NumLines(sat_system)))
                         @@ [PRN |-> prn, Epoch |-> epoch.v, Toc |-> epoch.v,
                             SV_clock_bias |-> clock[1],
                             SV_clock_drift |-> clock[2],
                             SV_clock_drift_rate |-> clock[3]]]

\* the three clock terms: as parsed, or all 0.0 if one of them raised ValueError
Rinex3Clock(cs) ==
    IF FirstExc(cs) = "none" THEN <<cs[1].v, cs[2].v, cs[3].v>> ELSE <<Zero, Zero, Zero>>

\* the v3/v4 record from the conversions fs of prn, year, month, day, hour, minute, second
Rinex3Fields(lines, i, sat_system, fs, clock) ==
    IF FirstExc(fs) # "none" THEN Failed(FirstExc(fs), sat_system)
    ELSE Rinex3Dated(lines, i, sat_system, fs[1].v,
                     MakeEpoch(fs[2].v, fs[3].v, fs[4].v, fs[5].v, fs[6].v, fs[7].v), clock)

\* the record of the first line line, whose first three columns, stripped, are sat_id
Rinex3FirstLine(lines, i, line, sat_id) ==
    IF sat_id = "" THEN Failed("IndexError", "")
    ELSE Rinex3Fields(lines, i, Ch(sat_id, 1),
                      << PyInt(Slice(sat_id, 1, 3)),
                         PyInt(Slice(line, 4, 8)), PyInt(Slice(line, 9, 11)),
                         PyInt(Slice(line, 12, 14)), PyInt(Slice(line, 15, 17)),
                         PyInt(Slice(line, 18, 20)), PyFloat(Slice(line, 21, 23)) >>,
                      Rinex3Clock(<< ParseSciNotation(Strip(Slice(line, 23, 42))),
                                     ParseSciNotation(Strip(Slice(line, 42, 61))),
                                     ParseSciNotation(Strip(Slice(line, 61, 80))) >>))

\* one iteration of the loop of Rinex3NavReader._parse_data on a non-blank lines[i]:
\* [exc, sat_system, record]
Rinex3Record(lines, i) == Rinex3FirstLine(lines, i, lines[i + 1], Strip(Slice(lines[i + 1], 0, 3)))

(***************************************************************************)
(* Input files                                                             *)
(***************************************************************************)
\* most record blocks in the data section of an input file
MaxBlocks == 2

\* line with the characters from the 0-based column col on overwritten by text
Splice(line, col, text) ==
    SubSeq(line, 1, col) \o text \o SliceFrom(line, col + Len(text))

\* block with its n-th line (1-based) replaced
SetLine(block, n, text) == [block EXCEPT ![n] = text]

Rinex2Block1 == SubSeq(rinex2_content, 5, 12)

Rinex2Block2 == SubSeq(rinex2_content, 13, 20)

GpsBlock == SubSeq(rinex3_content, 14, 21)

BeidouBlock == SubSeq(rinex3_content, 22, 29)

GlonassBlock == SubSeq(rinex3_content, 30, 33)

\* the GLONASS block relabelled as SBAS satellite S20, the GPS block as E11 and J01
SbasBlock == SetLine(GlonassBlock, 1, Splice(GlonassBlock[1], 0, "S20"))

GalileoBlock == SetLine(GpsBlock, 1, Splice(GpsBlock[1], 0, "E11"))

QzssBlock == SetLine(GpsBlock, 1, Splice(GpsBlock[1], 0, "J01"))

\* a field no numeric strategy can read
Stars == "*******************"

\* the anomalies applied to a well-formed block
Variant(block, kind, v2) ==
    CASE kind = "ok"         -> block
      [] kind = "blank_cont" -> SetLine(block, 3, "")
      [] kind = "short_line" -> SetLine(block, 3, SubSeq(block[3], 1, IF v2 THEN 41 ELSE 42))
      [] kind = "blank_slot" -> SetLine(block, 3, Splice(block[3], IF v2 THEN 22 ELSE 23, "                   "))
      [] kind = "bad_prn"    -> SetLine(block, 1, Splice(block[1], IF v2 THEN 0 ELSE 1, "xx"))
      [] kind = "bad_date"   -> SetLine(block, 1, Splice(block[1], IF v2 THEN 6 ELSE 9, "13"))
      [] kind = "bad_clock"  -> SetLine(block, 1, Splice(block[1], IF v2 THEN 41 ELSE 42, Stars))
      [] kind = "bad_orbit"  -> SetLine(block, 2, Splice(block[2], IF v2 THEN 22 ELSE 23, Stars))
      [] kind = "d_space"    -> SetLine(block, 2, Splice(block[2], IF v2 THEN 22 ELSE 23, " 1.41250000000D +02"))
      [] kind = "overflow"   -> SetLine(block, 2, Splice(block[2], IF v2 THEN 22 ELSE 23, " 1.4125000000D+400-"))
      [] kind = "truncated"  -> SubSeq(block, 1, 3)

Kinds ==
    {"ok", "blank_cont", "short_line", "blank_slot", "bad_prn", "bad_date",
     "bad_clock", "bad_orbit", "d_space", "overflow", "truncated"}

\* the blocks a v2 data section is made of (a single blank line included)
Rinex2Blocks ==
    {Variant(Rinex2Block2, kind, TRUE) : kind \in Kinds} \cup {Rinex2Block1, <<"">>}

\* the blocks a v3/v4 data section is made of
Rinex3Blocks ==
    {Variant(GpsBlock, kind, FALSE) : kind \in Kinds}
        \cup {BeidouBlock, GlonassBlock, SbasBlock, GalileoBlock, QzssBlock, <<"">>,
              Variant(GlonassBlock, "blank_cont", FALSE), Variant(GlonassBlock, "bad_clock", FALSE)}

RECURSIVE Flatten(_)
Flatten(blocks) == IF blocks = <<>> THEN <<>> ELSE Head(blocks) \o Flatten(Tail(blocks))

\* sequences of fewer than MaxBlocks well-formed blocks
GoodSeqs(good) == UNION {[1..n -> good] : n \in 0..(MaxBlocks - 1)}

\* data sections of at most MaxBlocks blocks: one block of any kind among well-formed ones
BlockSeqs(good, blocks) ==
    {<<>>} \cup
    { t[1] \o <<t[2]>> \o t[3] :
        t \in {u \in GoodSeqs(good) \X blocks \X GoodSeqs(good) : Len(u[1]) + Len(u[3]) < MaxBlocks} }

\* the texts of the version field (columns 0-8 of the first line)
VersionFields ==
    {"     2.11", "     2.00", "     2.99", "     3.00", "     3.04", "     4.00",
     "     1.00", "      abc"}

EndOfHeader == rinex2_content[4]

\* the forms of the header end: the marker line, its case, its line terminator
HeaderEnds ==
    { <<EndOfHeader, "">>, <<"end of header", "">>, <<EndOfHeader>>, <<>>,
      <<EndOfHeader, Rinex2Block1[1], EndOfHeader, "">> }

LeapSecondsLine == rinex3_content[12]

\* optional header lines: none, a LEAP SECONDS line, one with a non-integer count
ExtraHeaders ==
    { <<>>, <<LeapSecondsLine>>, <<Splice(LeapSecondsLine, 0, "  18.0")>> }

\* files that vary the first line, the header lines and the header end
HeaderFiles ==
    { <<Splice(rinex3_content[1], 0, ver)>> \o SubSeq(rinex3_content, 2, 3) \o extra \o ending
        : ver \in VersionFields, extra \in ExtraHeaders, ending \in HeaderEnds }

\* files with a well-formed header that vary the record blocks, and files with
\* a blank line between two blocks
Rinex2Files ==
    { SubSeq(rinex2_content, 1, 4) \o Flatten(bs) : bs \in BlockSeqs({Rinex2Block1, Rinex2Block2}, Rinex2Blocks) }
        \cup { SubSeq(rinex2_content, 1, 4) \o a \o <<"">> \o b : a, b \in {Rinex2Block1, Rinex2Block2} }

Rinex3Files ==
    { SubSeq(rinex3_content, 1, 13) \o Flatten(bs) : bs \in BlockSeqs({GpsBlock, GlonassBlock}, Rinex3Blocks) }
        \cup { SubSeq(rinex3_content, 1, 13) \o a \o <<"">> \o b : a, b \in {GpsBlock, GlonassBlock} }

Files == HeaderFiles \cup Rinex2Files \cup Rinex3Files \cup {rinex2_content, rinex3_content}

\* the digits an exponent is written with, and the longest exponent
MaxExpDigits == 3

ExponentDigits == {0, 1, 4, 5}

DigitChar(n) ==
    CASE n = 0 -> "0" [] n = 1 -> "1" [] n = 4 -> "4" [] n = 5 -> "5"

DigitSeqs == UNION {[1..n -> ExponentDigits] : n \in 1..MaxExpDigits}

RECURSIVE DigitText(_)
DigitText(ds) == IF ds = <<>> THEN "" ELSE DigitChar(Head(ds)) \o DigitText(Tail(ds))

\* the mantissas of the fields: text, sign, significant digits, fraction digits
Mantissas ==
    { [text |-> "1.234567890", s |-> 1, digits |-> "1234567890", nf |-> 9],
      [text |-> "-1.234567890", s |-> -1, digits |-> "1234567890", nf |-> 9],
      [text |-> "1.0", s |-> 1, digits |-> "10", nf |-> 1] }

\* the fields handed to the numeric parsers: a mantissa, the exponent letter
\* (with the space some writers leave after D), its sign and digits, and what
\* a neighbouring column may leave after the exponent
Fields ==
    [mantissa : Mantissas, letter : {"D", "D ", "E"}, sign : {"+", "-", ""},
     digits : DigitSeqs, trailing : {"", "-"}]

FieldText(f) == f.mantissa.text \o f.letter \o f.sign \o DigitText(f.digits) \o f.trailing

NoField ==
    [mantissa |-> [text |-> "", s |-> 1, digits |-> "", nf |-> 0], letter |-> "",
     sign |-> "", digits |-> <<>>, trailing |-> ""]

\* the result slot of a parser that has not been called
NotCalled == [exc |-> "not called", v |-> NaN]


(***************************************************************************)
(* utils.py: interpolate_orbit and compute_sv_clock_correction on a table  *)
(***************************************************************************)
\* date.toordinal(): days from 0001-01-01, which is day 1
DaysBeforeYear(y) == 365 * (y - 1) + ((y - 1) \div 4) - ((y - 1) \div 100) + ((y - 1) \div 400)

RECURSIVE DaysBeforeMonth(_, _)
DaysBeforeMonth(y, m) ==
    IF m <= 1 THEN 0 ELSE DaysInMonth(y, m - 1) + DaysBeforeMonth(y, m - 1)

Ordinal(y, m, d) == DaysBeforeYear(y) + DaysBeforeMonth(y, m) + d

\* (dt - gps_epoch).total_seconds() for gps_epoch = datetime(1980, 1, 6, 0, 0, 0),
\* in whole seconds
SinceGpsEpoch(dt) ==
    (Ordinal(dt[1], dt[2], dt[3]) - Ordinal(1980, 1, 6)) * 86400
        + dt[4] * 3600 + dt[5] * 60 + dt[6]

\* a <= b for two datetimes
DatetimeLE(a, b) ==
    \/ SinceGpsEpoch(a) < SinceGpsEpoch(b)
    \/ SinceGpsEpoch(a) = SinceGpsEpoch(b) /\ a[7] <= b[7]

\* the integer part of a finite float, with its sign
Trunc(v) == v.s * FloatToInt(v)

\* `param not in closest_row or pd.isna(closest_row[param])`
Missing(row, param) == param \notin DOMAIN row \/ row[param].k = "nan"

\* what a call gives: the exception it raised, or the value it returned, which
\* is the state (or the correction) computed from closest_row at dt seconds
\* from its reference time, with the relativistic term at dt_toe seconds if rel;
\* n names the terms of the mean motion the mean anomaly M is computed with
Outcome(e, msg, closest_row, dt, rel, dt_toe, n) ==
    [exc |-> e, msg |-> msg, closest_row |-> closest_row, dt |-> dt,
     rel |-> rel, dt_toe |-> dt_toe, n |-> n]

Fails(e, msg) == Outcome(e, msg, EmptyDict, 0, FALSE, 0, <<>>)

\* nav_data[nav_data['PRN'] == prn]
SatData(nav_data, prn) == {n \in 1..Len(nav_data) : nav_data[n].PRN = prn}

\* sat_data[sat_data['Epoch'] <= time]
UpToTime(nav_data, prn, time) ==
    {n \in SatData(nav_data, prn) : DatetimeLE(nav_data[n].Epoch, time)}

\* the exception of the selection of closest_row, "none" if it selects a row:
\* a table without rows has no PRN column, a table without rows of prn raises
\* ValueError, .iloc[-1] of no row raises IndexError
SelectError(nav_data, prn, time) ==
    IF nav_data = <<>> THEN "KeyError"
    ELSE IF SatData(nav_data, prn) = {} THEN "ValueError"
    ELSE IF UpToTime(nav_data, prn, time) = {} THEN "IndexError"
    ELSE "none"

\* LastRows with the first row of the sorted table in place of the last
LastRows_First(nav_data, rows) ==
    { nav_data[n] : n \in {m \in rows : \A q \in rows :
                                DatetimeLE(nav_data[m].Epoch, nav_data[q].Epoch)} }

\* the rows .iloc[-1] can give after sort_values('Epoch'): a row of the
\* greatest Epoch among rows (the sort is not stable)
LastRows(nav_data, rows) ==
    { nav_data[n] : n \in {m \in rows : \A q \in rows :
                                DatetimeLE(nav_data[q].Epoch, nav_data[m].Epoch)} }

\* closest_row, or no row when the selection raises
ClosestRows(nav_data, prn, time) ==
    IF SelectError(nav_data, prn, time) = "none"
    THEN LastRows(nav_data, UpToTime(nav_data, prn, time))
    ELSE {EmptyDict}

\* required_params without its last name
required_params_Short ==
    <<"sqrt_A", "e", "M0", "omega", "OMEGA", "i0", "Delta_n", "Cuc", "Cus", "Crc",
      "Crs", "Cic", "Cis", "IDOT">>

required_params ==
    <<"sqrt_A", "e", "M0", "omega", "OMEGA", "i0", "Delta_n", "Cuc", "Cus", "Crc",
      "Crs", "Cic", "Cis", "IDOT", "OMEGA_DOT">>

\* the clock terms without the last one
clock_params_Short == <<"SV_clock_bias", "SV_clock_drift">>

clock_params == <<"SV_clock_bias", "SV_clock_drift", "SV_clock_drift_rate">>

week_cols == <<"GPS_week", "GAL_week", "BDT_week">>

\* the loop over week_cols from the c-th on, then the fallback to the week of
\* datetime.now(): [exc, v]
RECURSIVE Week(_, _, _)
Week(closest_row, c, current_week) ==
    IF c > Len(week_cols) THEN [exc |-> "none", v |-> current_week]
    ELSE IF Missing(closest_row, week_cols[c]) THEN Week(closest_row, c + 1, current_week)
    ELSE IF closest_row[week_cols[c]].k = "inf" THEN [exc |-> "OverflowError", v |-> 0]
    ELSE [exc |-> "none", v |-> Trunc(closest_row[week_cols[c]])]

\* int(x / y) for y > 0: the quotient without its fraction
IntOfQuotient(x, y) == IF x >= 0 THEN x \div y ELSE -((-x) \div y)

\* datetime_to_gps_time(dt), total_seconds being (dt - gps_epoch).total_seconds()
DatetimeToGpsTime(total_seconds) ==
    [week |-> IntOfQuotient(total_seconds, 7 * 24 * 3600),
     sow |-> total_seconds % (7 * 24 * 3600)]

\* gps_epoch + timedelta(weeks=week, seconds=seconds), as seconds from gps_epoch
GpsEpochPlus(week, seconds) == week * 604800 + seconds

\* the datetimes: every half day of some weeks before and after gps_epoch, and
\* the second after it
MaxHalfDays == 30

Datetimes == {k * 43200 + j : k \in (-MaxHalfDays)..MaxHalfDays, j \in {0, 1}}

\* the days from gps_epoch to datetime.max
MaxDays == 2929239

\* gps_time_to_datetime(week, seconds), as whole seconds from gps_epoch: [exc, v]
GpsTimeToDatetime(week, seconds) ==
    IF seconds.k = "nan" THEN [exc |-> "ValueError", v |-> 0]
    ELSE IF seconds.k = "inf" THEN [exc |-> "OverflowError", v |-> 0]
    ELSE IF week * 7 + (Trunc(seconds) \div 86400) >= MaxDays
              \/ week * 7 + (Trunc(seconds) \div 86400) < 1 - Ordinal(1980, 1, 6)
         THEN [exc |-> "OverflowError", v |-> 0]
    ELSE [exc |-> "none", v |-> GpsEpochPlus(week, Trunc(seconds))]

\* interpolate_orbit from dt on: the state at dt = time - toe_datetime
OrbitState(closest_row, time, toe_datetime) ==
    IF toe_datetime.exc # "none" THEN Fails(toe_datetime.exc, "")
    ELSE Outcome("none", "", closest_row, SinceGpsEpoch(time) - toe_datetime.v, FALSE, 0,
                 <<"n0", "Delta_n">>)

\* interpolate_orbit from toe_datetime on
OrbitDated(closest_row, time, week) ==
    IF week.exc # "none" THEN Fails(week.exc, "")
    ELSE OrbitState(closest_row, time, GpsTimeToDatetime(week.v, closest_row["Toe"]))

\* interpolate_orbit from the check of required_params on
OrbitChecked(closest_row, time, current_week) ==
    IF \E p \in 1..Len(required_params) : Missing(closest_row, required_params[p])
    THEN Fails("ValueError", "Missing or NaN value")
    ELSE IF "Toe" \notin DOMAIN closest_row THEN Fails("KeyError", "")
    ELSE OrbitDated(closest_row, time, Week(closest_row, 1, current_week))

\* interpolate_orbit without the check of sat_system
InterpolateOrbitOf_AnySystem(nav_data, time, sat_system, prn, closest_row, current_week) ==
    IF SelectError(nav_data, prn, time) = "ValueError"
    THEN Fails("ValueError", "No navigation data found")
    ELSE IF SelectError(nav_data, prn, time) # "none"
         THEN Fails(SelectError(nav_data, prn, time), "")
    ELSE OrbitChecked(closest_row, time, current_week)

\* interpolate_orbit(nav_data, time, sat_system, prn), closest_row being the row
\* .iloc[-1] gives and current_week the GPS week of datetime.now()
InterpolateOrbitOf(nav_data, time, sat_system, prn, closest_row, current_week) ==
    IF sat_system \notin {"G", "J"} THEN Fails("ValueError", "not supported yet")
    ELSE IF SelectError(nav_data, prn, time) = "ValueError"
         THEN Fails("ValueError", "No navigation data found")
    ELSE IF SelectError(nav_data, prn, time) # "none"
         THEN Fails(SelectError(nav_data, prn, time), "")
    ELSE OrbitChecked(closest_row, time, current_week)

\* compute_sv_clock_correction from dt_toe on: the relativistic term is added
ClockRelativistic(closest_row, time, dt, toe_datetime) ==
    IF toe_datetime.exc # "none" THEN Fails(toe_datetime.exc, "")
    ELSE Outcome("none", "", closest_row, dt, TRUE, SinceGpsEpoch(time) - toe_datetime.v,
                 <<"n0">>)

\* compute_sv_clock_correction from toe_datetime on
ClockDated(closest_row, time, dt, week) ==
    IF week.exc # "none" THEN Fails(week.exc, "")
    ELSE ClockRelativistic(closest_row, time, dt,
                           GpsTimeToDatetime(week.v, closest_row["Toe"]))

\* the relativistic correction is computed: sat_system is G or J and e, sqrt_A,
\* Toe and M0 are in closest_row
HasRelativistic(closest_row, sat_system) ==
    /\ sat_system \in {"G", "J"}
    /\ ~Missing(closest_row, "e") /\ ~Missing(closest_row, "sqrt_A")
    /\ ~Missing(closest_row, "Toe") /\ ~Missing(closest_row, "M0")

\* compute_sv_clock_correction from dt_corr = a0 + a1 * dt + a2 * dt**2 on
ClockCorrected(closest_row, time, sat_system, current_week, dt) ==
    IF HasRelativistic(closest_row, sat_system)
    THEN ClockDated(closest_row, time, dt, Week(closest_row, 1, current_week))
    ELSE Outcome("none", "", closest_row, dt, FALSE, 0, <<>>)

\* compute_sv_clock_correction from the check of the clock terms on
ClockChecked(closest_row, time, sat_system, current_week) ==
    IF \E p \in 1..Len(clock_params) : Missing(closest_row, clock_params[p])
    THEN Fails("ValueError", "Missing or NaN value")
    ELSE ClockCorrected(closest_row, time, sat_system, current_week,
                        SinceGpsEpoch(time) - SinceGpsEpoch(closest_row.Epoch))

\* compute_sv_clock_correction(nav_data, time, sat_system, prn)
ComputeSvClockCorrectionOf(nav_data, time, sat_system, prn, closest_row, current_week) ==
    IF SelectError(nav_data, prn, time) = "ValueError"
    THEN Fails("ValueError", "No navigation data found")
    ELSE IF SelectError(nav_data, prn, time) # "none"
         THEN Fails(SelectError(nav_data, prn, time), "")
    ELSE ClockChecked(closest_row, time, sat_system, current_week)

(***************************************************************************)
(* The tables and the queries                                              *)
(***************************************************************************)
\* the longest table
MaxEntries == 2

\* the two records of the RINEX 2 sample (PRN 1 at 00:00:00 and at 02:00:00 of
\* 2002-01-01) and the GLONASS record of the RINEX 3 sample (PRN 5 at
\* 2021-12-31 23:45:00), as the readers emit them
BaseEntries ==
    { Rinex2Record(Rinex2Block1, 0).record,
      Rinex2Record(Rinex2Block2, 0).record,
      Rinex3Record(GlonassBlock, 0).record }

\* what is missing in every entry of a table: nothing, one field, or the week
Damages ==
    {"none", "GPS_week", "Toe", "sqrt_A", "e", "M0", "omega", "OMEGA", "i0", "Delta_n",
     "Cuc", "Cus", "Crc", "Crs", "Cic", "Cis", "IDOT", "OMEGA_DOT", "SV_clock_bias",
     "SV_clock_drift", "SV_clock_drift_rate"}

Damaged(entry, damage) ==
    IF damage \in DOMAIN entry THEN Put(entry, damage, NaN) ELSE entry

Tables ==
    { [n \in DOMAIN t[1] |-> Damaged(t[1][n], t[2])] :
        t \in (UNION {[1..n -> BaseEntries] : n \in 0..MaxEntries}) \X Damages }

SatSystems == {"G", "J", "R", "E", "C", "I", "S"}

Prns == {1, 5}

Times ==
    { <<2001, 12, 31, 23, 0, 0, 0>>, <<2002, 1, 1, 1, 0, 0, 0>>,
      <<2022, 1, 1, 0, 0, 0, 0>> }

\* the GPS weeks datetime.now() can fall in
CurrentWeeks == {2443, 2444}


(***************************************************************************)
(* example_usage.py: compute_dop_values on a store                         *)
(***************************************************************************)
\* supported_systems = ['G']
supported_systems == {"G"}

\* a satellite of visible_sats: (sys, prn)
Sat(sys, prn) == <<sys, prn>>

\* nav_data[nav_data['PRN'] == prn] made in place: the table keeps these rows only
NavDataAfter_InPlace(nav_data, prn) == SelectSeq(nav_data, LAMBDA row : row.PRN = prn)

\* the table after nav_data[nav_data['PRN'] == prn].sort_values('Epoch'): the
\* selection and the sort make new frames, nav_data is as it was
NavDataAfter(nav_data, prn) == nav_data

\* |v| > 1
AbsAboveOne(v) == v.k = "inf" \/ (v.k = "num" /\ (v.x >= 2 \/ (v.x = 1 /\ v.d # "1")))

\* what compute_dop_values makes of a call of interpolate_orbit: "caught" if it
\* raised, "nan" if np.isnan(pos['X']), which np.sqrt(1 - e**2) brings about
\* for e > 1, else "num": the satellite has a position
PositionOf(out) ==
    IF out.exc # "none" THEN "caught"
    ELSE IF AbsAboveOne(out.closest_row["e"]) THEN "nan"
    ELSE "num"

\* df['PRN'].unique(): the PRNs of the rows from the n-th on that no earlier row has
RECURSIVE Unique(_, _)
Unique(df, n) ==
    IF n > Len(df) THEN <<>>
    ELSE IF \E m \in 1..(n - 1) : df[m].PRN = df[n].PRN THEN Unique(df, n + 1)
    ELSE <<Sat("G", df[n].PRN)>> \o Unique(df, n + 1)

\* visible_sats after `if visible_sats is None`: every satellite of the
\* tables of the supported systems
DefaultSats(nav_data) ==
    IF "G" \in DOMAIN nav_data /\ "G" \in supported_systems THEN Unique(nav_data["G"], 1) ELSE <<>>

\* a table pd.DataFrame() of no record has no column: df['PRN'] raises KeyError.
\* The default list reads the PRN column of every supported table of the store
DefaultRaises(nav_data) ==
    \E sys \in DOMAIN nav_data \cap supported_systems : nav_data[sys] = <<>>

\* the loop over visible_sats reads it for every listed supported satellite
\* whose system is in the store, outside the try
ListRaises(nav_data, visible_sats) ==
    \E n \in 1..Len(visible_sats) :
        /\ visible_sats[n][1] \in supported_systems
        /\ visible_sats[n][1] \in DOMAIN nav_data
        /\ nav_data[visible_sats[n][1]] = <<>>

\* `sys in supported_systems`, `sys in nav_data and prn in nav_data[sys]['PRN'].values`
Looked(nav_data, sat) ==
    /\ sat[1] \in supported_systems
    /\ sat[1] \in DOMAIN nav_data
    /\ \E n \in 1..Len(nav_data[sat[1]]) : nav_data[sat[1]][n].PRN = sat[2]

\* what the loop can make of one satellite: "skipped", or PositionOf the call
PositionsOfSat(nav_data, time, sat) ==
    IF ~Looked(nav_data, sat) THEN {"skipped"}
    ELSE { PositionOf(InterpolateOrbitOf(nav_data[sat[1]], time, sat[1], sat[2], closest_row, current_week)) :
             closest_row \in ClosestRows(nav_data[sat[1]], sat[2], time),
             current_week \in CurrentWeeks }

\* the lists sat_positions the loop over visible_sats can build: one element
\* for every listed satellite with a position, in the order of the list
RECURSIVE SatPositions(_, _, _)
SatPositions(nav_data, time, visible_sats) ==
    IF visible_sats = <<>> THEN {<<>>}
    ELSE { (IF t[1] = "num" THEN <<Head(visible_sats)>> ELSE <<>>) \o t[2] :
             t \in PositionsOfSat(nav_data, time, Head(visible_sats))
                     \X SatPositions(nav_data, time, Tail(visible_sats)) }

\* what compute_dop_values gives: the exception it raised, or its result
\* ("None" or the "dop" values), with the list it worked on and, if it came
\* to build one, the satellites of the rows of the geometry matrix
Dop(e, result, visible_sats, sat_positions) ==
    [exc |-> e, result |-> result, visible_sats |-> visible_sats, sat_positions |-> sat_positions]

\* compute_dop_values from the loop over visible_sats on; inv is what
\* np.linalg.inv(G.T @ G) does: it gives "Q" or raises "LinAlgError"
DopOfList(nav_data, visible_sats, sat_positions, inv) ==
    IF ListRaises(nav_data, visible_sats) THEN Dop("KeyError", "None", visible_sats, <<>>)
    ELSE IF Len(sat_positions) < 4 THEN Dop("none", "None", visible_sats, sat_positions)
    ELSE IF inv = "LinAlgError" THEN Dop("none", "None", visible_sats, sat_positions)
    ELSE Dop("none", "dop", visible_sats, sat_positions)

\* compute_dop_values(nav_data, receiver_pos, time, visible_sats=None), without
\* a list
DopOfDefault(nav_data, sat_positions, inv) ==
    IF DefaultRaises(nav_data) THEN Dop("KeyError", "None", <<>>, <<>>)
    ELSE IF DefaultSats(nav_data) = <<>> THEN Dop("none", "None", <<>>, <<>>)
    ELSE DopOfList(nav_data, DefaultSats(nav_data), sat_positions, inv)

\* the list the loop goes over: the given one, or the default
ListOf(nav_data, visible_sats) ==
    IF visible_sats.given THEN visible_sats.sats
    ELSE IF DefaultRaises(nav_data) THEN <<>> ELSE DefaultSats(nav_data)

ComputeDopValuesOf(nav_data, visible_sats, sat_positions, inv) ==
    IF visible_sats.given THEN DopOfList(nav_data, visible_sats.sats, sat_positions, inv)
    ELSE DopOfDefault(nav_data, sat_positions, inv)

\* the store after the calls of interpolate_orbit of the loop
RECURSIVE StoreAfter(_, _)
StoreAfter(nav_data, visible_sats) ==
    IF visible_sats = <<>> THEN nav_data
    ELSE IF ~Looked(nav_data, Head(visible_sats)) THEN StoreAfter(nav_data, Tail(visible_sats))
    ELSE StoreAfter(Put(nav_data, Head(visible_sats)[1],
                        NavDataAfter(nav_data[Head(visible_sats)[1]], Head(visible_sats)[2])),
                    Tail(visible_sats))

\* the most satellites of a table
MaxSats == 5

\* the first record of the RINEX 2 sample as the entry of satellite prn:
\* complete ("ok"), without M0 ("no_M0": interpolate_orbit raises), or with
\* e = 1.5 ("e_above_1": the position is NaN)
SatKinds == {"ok", "no_M0", "e_above_1"}

SatEntry(prn, kind) ==
    CASE kind = "ok" -> Put(Rinex2Record(Rinex2Block1, 0).record, "PRN", prn)
      [] kind = "no_M0" -> Put(Damaged(Rinex2Record(Rinex2Block1, 0).record, "M0"), "PRN", prn)
      [] kind = "e_above_1" ->
            Put(Put(Rinex2Record(Rinex2Block1, 0).record, "e", MkFloat(1, "15", -1)), "PRN", prn)

\* tables of satellites 1..n, the last of them of any kind
SatTables ==
    { [k \in 1..n |-> SatEntry(k, IF k = n THEN kind ELSE "ok")] : n \in 0..MaxSats, kind \in SatKinds }

\* the stores: no table, a G table, a G and a J table, a J table, a G and an R table
Stores ==
    {EmptyDict}
        \cup { Put(EmptyDict, "G", g) : g \in SatTables }
        \cup { Put(Put(EmptyDict, "G", g), "J", <<SatEntry(1, "ok"), SatEntry(2, "ok")>>) :
                 g \in {t \in SatTables : \A n \in 1..Len(t) : t[n] = SatEntry(n, "ok")} }
        \cup { Put(EmptyDict, "J", <<SatEntry(1, "ok"), SatEntry(2, "ok")>>),
               Put(Put(EmptyDict, "G", <<SatEntry(1, "ok")>>), "R", <<Rinex3Record(GlonassBlock, 0).record>>) }

\* the arguments visible_sats: None, and lists of G, J and R satellites, with
\* a satellite named twice or four times, or one the store does not hold
VisibleSats ==
    { [given |-> FALSE, sats |-> <<>>] }
        \cup { [given |-> TRUE, sats |-> l] :
                 l \in { <<>>,
                         <<Sat("G", 1), Sat("G", 2), Sat("G", 3), Sat("G", 4)>>,
                         <<Sat("G", 1), Sat("G", 2), Sat("G", 3), Sat("G", 4), Sat("G", 5)>>,
                         <<Sat("G", 1), Sat("G", 1), Sat("G", 1), Sat("G", 1)>>,
                         <<Sat("G", 1), Sat("G", 2), Sat("G", 3), Sat("G", 3)>>,
                         <<Sat("G", 1), Sat("G", 2), Sat("G", 3), Sat("J", 1)>>,
                         <<Sat("J", 1), Sat("J", 2), Sat("G", 1), Sat("G", 2)>>,
                         <<Sat("G", 1), Sat("G", 2), Sat("G", 3), Sat("R", 5)>>,
                         <<Sat("G", 1), Sat("G", 2), Sat("G", 3), Sat("G", 9)>> } }

\* the query times: before the epoch of every entry, and after it
DopTimes == { <<2001, 12, 31, 23, 0, 0, 0>>, <<2002, 1, 1, 1, 0, 0, 0>> }

(***************************************************************************)
(* utils.py: the solution of Kepler's equation, in fixed point             *)
(***************************************************************************)
\* the floats M, e and E are kept as whole numbers of 1/One
One == 10000

\* pi, in 1/One
Pi == 31416

\* x * y
Mul(x, y) == (x * y) \div One

\* the term of x^(k+2) of the series of np.sin, from the term of x^k
SinTerm(term, x2, k) == Mul(term, x2) \div ((k + 1) * (k + 2))

\* np.sin(x) for -pi/2 <= x <= pi/2, x2 being x * x: the series up to x^9
SinSeries(x, x2) ==
    x - SinTerm(x, x2, 1) + SinTerm(SinTerm(x, x2, 1), x2, 3)
      - SinTerm(SinTerm(SinTerm(x, x2, 1), x2, 3), x2, 5)
      + SinTerm(SinTerm(SinTerm(SinTerm(x, x2, 1), x2, 3), x2, 5), x2, 7)

\* the angle of [-pi/2, pi/2] that has the sine of r, for -pi <= r <= pi
Fold(r) == IF r > Pi \div 2 THEN Pi - r ELSE IF r < -(Pi \div 2) THEN -Pi - r ELSE r

\* the angle of (-pi, pi] at r turns of 2 pi, for 0 <= r < 2 pi
Wrap(r) == IF r > Pi THEN r - 2 * Pi ELSE r

\* np.sin(x)
Sin(x) == SinSeries(Fold(Wrap(x % (2 * Pi))), Mul(Fold(Wrap(x % (2 * Pi))), Fold(Wrap(x % (2 * Pi)))))

\* E_next = M + e * np.sin(E)
ENext(M, e, E) == M + Mul(e, Sin(E))

\* abs(E_next - E) < 1e-12, which no two different multiples of 1/One satisfy
Converged(E_next, E) == E_next = E

\* a loop of one more iteration
LoopEnds_Eleven(n) == n = 11

\* for _ in range(10): the loop ends with the n-th iteration
LoopEnds(n) == n = 10

\* the mean anomalies: the multiples of 0.05 rad of two turns
MaxAnomaly == 251

MeanAnomalies == {k * (One \div 20) : k \in 0..MaxAnomaly}

Eccentricities == {0, One \div 20, One \div 5, (6 * One) \div 10, (9 * One) \div 10}

(***************************************************************************)
(* What a read leaves when it is repeated                                  *)
(***************************************************************************)
\* the slot of the first read when content was read once only
NotRead == [exc |-> "not read", header |-> EmptyDict, data |-> EmptyDict]

(***************************************************************************)
(* read_rinex_nav as a state machine                                       *)
(***************************************************************************)
VARIABLES
    content,            \* the file content, as its newline-free segments
    pc,                 \* position in read_rinex_nav / _read_file / _parse_data
    reader,             \* the reader class chosen by read_rinex_nav
    header_content,     \* _read_file: content[:match.end()]
    data_content,       \* _read_file: content[match.end():]
    header,             \* self.header
    lines,              \* _parse_data: data_content.strip().split('\n')
    i,                  \* _parse_data: index of the current line
    records,            \* Rinex2NavReader._parse_data: records
    records_by_system,  \* Rinex3NavReader._parse_data: records_by_system
    data,               \* self.data, one table (sequence of rows) per system
    exc,                \* the exception read_rinex_nav raised, "none" if none
    trace,              \* history: what each iteration of the record loop did
    field,              \* the parts of the field given to the numeric parsers
    value_str,          \* _parse_rinex_float / parse_sci_notation: value_str
    rinex_float,        \* what _parse_rinex_float(value_str) returned or raised
    sci_notation,       \* what parse_sci_notation(value_str.strip()) returned or raised
    nav_data,           \* the table given to the functions of utils.py
    sat_system,         \* their argument sat_system
    prn,                \* their argument prn
    time,               \* their argument time
    returns,            \* history: what each call returned or raised
    kepler,             \* the solution of Kepler's equation: M, e, E, iterations
    previous,           \* history: what the first of two reads of content gave
    gps_time            \* a datetime (dt), its GPS time (week, sow) and the way back

field_vars == <<field, value_str, rinex_float, sci_notation>>

file_vars == <<content, reader, header_content, data_content, header, lines, i,
               records, records_by_system, data, exc, trace>>

query_vars == <<nav_data, sat_system, prn, time, returns>>

vars == <<pc, file_vars, field_vars, query_vars, kepler, previous, gps_time>>

Init ==
    /\ content \in Files
    /\ pc = "read_rinex_nav"
    /\ reader = "none"
    /\ header_content = <<>>
    /\ data_content = <<>>
    /\ header = EmptyDict
    /\ lines = <<>>
    /\ i = 0
    /\ records = <<>>
    /\ records_by_system = EmptyDict
    /\ data = EmptyDict
    /\ exc = "none"
    /\ trace = <<>>
    /\ field = NoField
    /\ value_str = ""
    /\ rinex_float = NotCalled
    /\ sci_notation = NotCalled
    /\ nav_data = <<>>
    /\ sat_system = ""
    /\ prn = 0
    /\ time = <<1, 1, 1, 0, 0, 0, 0>>
    /\ returns = <<>>
    /\ kepler = [M |-> 0, e |-> 0, E |-> 0, n |-> 0]
    /\ previous = NotRead
    /\ gps_time = [dt |-> 0, week |-> 0, sow |-> 0, back |-> 0]

\* the raise statements and uncaught exceptions: the call ends without a reader
Raise(e) ==
    /\ pc' = "raised"
    /\ exc' = e

\* SelectReader with the v3 reader kept for 3.x files only
SelectReader_3xOnly(version) ==
    IF FloatGE(version, 2) /\ ~FloatGE(version, 3) THEN "Rinex2NavReader"
    ELSE IF FloatGE(version, 3) /\ ~FloatGE(version, 4) THEN "Rinex3NavReader"
    ELSE "none"

\* v2 is chosen for 2.0 <= version < 3.0, v3 for version >= 3.0
SelectReader(version) ==
    IF FloatGE(version, 2) /\ ~FloatGE(version, 3) THEN "Rinex2NavReader"
    ELSE IF FloatGE(version, 3) THEN "Rinex3NavReader"
    ELSE "none"

\* read_rinex_nav: the version of the first line selects the reader class
ReadRinexNav ==
    /\ pc = "read_rinex_nav"
    /\ \E version \in {PyFloat(Slice(content[1], 0, 9))} :
           IF version.exc # "none" \/ SelectReader(version.v) = "none"
           THEN Raise("ValueError") /\ UNCHANGED reader
           ELSE reader' = SelectReader(version.v) /\ pc' = "_read_file" /\ UNCHANGED exc
    /\ UNCHANGED <<content, header_content, data_content, header, lines, i,
                   records, records_by_system, data, trace>>
    /\ UNCHANGED field_vars
    /\ UNCHANGED query_vars
    /\ UNCHANGED kepler
    /\ UNCHANGED <<previous, gps_time>>

\* ReadFile without the check of the match: the whole content is taken as header
ReadFile_Unchecked ==
    /\ pc = "_read_file"
    /\ \E match \in {HeaderEndMatches(content)} :
       \E cut \in {IF match # {} THEN SetMin(match) ELSE Len(content)} :
           /\ header_content' = SubSeq(content, 1, cut) \o <<"">>
           /\ data_content' = SubSeq(content, cut + 1, Len(content))
           /\ pc' = "_parse_header"
           /\ UNCHANGED exc
    /\ UNCHANGED <<content, reader, header, lines, i, records, records_by_system, data, trace>>
    /\ UNCHANGED field_vars
    /\ UNCHANGED query_vars
    /\ UNCHANGED kepler
    /\ UNCHANGED <<previous, gps_time>>

\* RinexNavReader._read_file: split at the first END OF HEADER line
ReadFile ==
    /\ pc = "_read_file"
    /\ \E match \in {HeaderEndMatches(content)} :
           IF match # {}
           THEN /\ header_content' = SubSeq(content, 1, SetMin(match)) \o <<"">>
                /\ data_content' = SubSeq(content, SetMin(match) + 1, Len(content))
                /\ pc' = "_parse_header"
                /\ UNCHANGED exc
           ELSE Raise("ValueError") /\ UNCHANGED <<header_content, data_content>>
    /\ UNCHANGED <<content, reader, header, lines, i, records, records_by_system, data, trace>>
    /\ UNCHANGED field_vars
    /\ UNCHANGED query_vars
    /\ UNCHANGED kepler
    /\ UNCHANGED <<previous, gps_time>>

\* _parse_header of the chosen reader
ParseHeader ==
    /\ pc = "_parse_header"
    /\ \E r \in {IF reader = "Rinex2NavReader" THEN Rinex2ParseHeader(header_content)
                  ELSE Rinex3ParseHeader(header_content)} :
           IF r.exc = "none"
           THEN header' = r.header /\ pc' = "_parse_data" /\ UNCHANGED exc
           ELSE Raise(r.exc) /\ UNCHANGED header
    /\ UNCHANGED <<content, reader, header_content, data_content, lines, i,
                   records, records_by_system, data, trace>>
    /\ UNCHANGED field_vars
    /\ UNCHANGED query_vars
    /\ UNCHANGED kepler
    /\ UNCHANGED <<previous, gps_time>>

\* _parse_data, up to the loop
ParseData ==
    /\ pc = "_parse_data"
    /\ lines' = StripSplit(data_content)
    /\ i' = 0
    /\ pc' = "loop"
    /\ UNCHANGED <<content, reader, header_content, data_content, header,
                   records, records_by_system, data, exc, trace>>
    /\ UNCHANGED field_vars
    /\ UNCHANGED query_vars
    /\ UNCHANGED kepler
    /\ UNCHANGED <<previous, gps_time>>

\* Rinex2NavReader._parse_data: a blank line is skipped
Rinex2Blank ==
    /\ pc = "loop" /\ reader = "Rinex2NavReader"
    /\ i < Len(lines)
    /\ RStrip(lines[i + 1]) = ""
    /\ i' = i + 1
    /\ trace' = Append(trace, [at |-> i, did |-> "blank", sys |-> ""])
    /\ UNCHANGED <<content, pc, reader, header_content, data_content, header, lines,
                   records, records_by_system, data, exc>>
    /\ UNCHANGED field_vars
    /\ UNCHANGED query_vars
    /\ UNCHANGED kepler
    /\ UNCHANGED <<previous, gps_time>>

\* Rinex2NavReader._parse_data: a record is appended, or dropped on any exception
Rinex2Step ==
    /\ pc = "loop" /\ reader = "Rinex2NavReader"
    /\ i < Len(lines)
    /\ RStrip(lines[i + 1]) # ""
    /\ \E r \in {Rinex2Record(lines, i)} :
           IF r.exc = "none"
           THEN /\ records' = Append(records, r.record)
                /\ trace' = Append(trace, [at |-> i, did |-> "record", sys |-> "G"])
           ELSE /\ UNCHANGED records
                /\ trace' = Append(trace, [at |-> i, did |-> "dropped", sys |-> "G"])
    /\ i' = i + 8
    /\ UNCHANGED <<content, pc, reader, header_content, data_content, header, lines,
                   records_by_system, data, exc>>
    /\ UNCHANGED field_vars
    /\ UNCHANGED query_vars
    /\ UNCHANGED kepler
    /\ UNCHANGED <<previous, gps_time>>

\* Rinex2NavReader._parse_data: the records become the table of system G
Rinex2Finish ==
    /\ pc = "loop" /\ reader = "Rinex2NavReader"
    /\ i >= Len(lines)
    /\ data' = Put(data, "G", records)
    /\ pc' = "returned"
    /\ UNCHANGED <<content, reader, header_content, data_content, header, lines, i,
                   records, records_by_system, exc, trace>>
    /\ UNCHANGED field_vars
    /\ UNCHANGED query_vars
    /\ UNCHANGED kepler
    /\ UNCHANGED <<previous, gps_time>>

\* Rinex3NavReader._parse_data: a blank line is skipped
Rinex3Blank ==
    /\ pc = "loop" /\ reader = "Rinex3NavReader"
    /\ i < Len(lines)
    /\ Strip(lines[i + 1]) = ""
    /\ i' = i + 1
    /\ trace' = Append(trace, [at |-> i, did |-> "blank", sys |-> ""])
    /\ UNCHANGED <<content, pc, reader, header_content, data_content, header, lines,
                   records, records_by_system, data, exc>>
    /\ UNCHANGED field_vars
    /\ UNCHANGED query_vars
    /\ UNCHANGED kepler
    /\ UNCHANGED <<previous, gps_time>>

\* Rinex3NavReader._parse_data: a record is appended to its system's list
Rinex3Step ==
    /\ pc = "loop" /\ reader = "Rinex3NavReader"
    /\ i < Len(lines)
    /\ Strip(lines[i + 1]) # ""
    /\ \E r \in {Rinex3Record(lines, i)} :
           IF r.exc = "none"
           THEN /\ records_by_system' =
                       Put(records_by_system, r.sat_system,
                           Append(Get(records_by_system, r.sat_system, <<>>), r.record))
                /\ trace' = Append(trace, [at |-> i, did |-> "record", sys |-> r.sat_system])
                /\ i' = i + NumLines(r.sat_system)
                /\ UNCHANGED <<pc, exc>>
           ELSE /\ Raise(r.exc)
                /\ UNCHANGED <<records_by_system, trace, i>>
    /\ UNCHANGED <<content, reader, header_content, data_content, header, lines, records, data>>
    /\ UNCHANGED field_vars
    /\ UNCHANGED query_vars
    /\ UNCHANGED kepler
    /\ UNCHANGED <<previous, gps_time>>

\* Rinex3NavReader._parse_data: each system's records become its table
Rinex3Finish ==
    /\ pc = "loop" /\ reader = "Rinex3NavReader"
    /\ i >= Len(lines)
    /\ data' = records_by_system
    /\ pc' = "returned"
    /\ UNCHANGED <<content, reader, header_content, data_content, header, lines, i,
                   records, records_by_system, exc, trace>>
    /\ UNCHANGED field_vars
    /\ UNCHANGED query_vars
    /\ UNCHANGED kepler
    /\ UNCHANGED <<previous, gps_time>>

Next ==
    \/ ReadRinexNav
    \/ ReadFile
    \/ ParseHeader
    \/ ParseData
    \/ Rinex2Blank
    \/ Rinex2Step
    \/ Rinex2Finish
    \/ Rinex3Blank
    \/ Rinex3Step
    \/ Rinex3Finish

Spec == Init /\ [][Next]_vars

(***************************************************************************)
(* read_rinex_nav called a second time on the same file                    *)
(***************************************************************************)
\* a second call that goes on with the lists of records of the first one
ReadAgain_KeepsRecords ==
    /\ pc \in {"returned", "raised"}
    /\ previous = NotRead
    /\ previous' = [exc |-> exc, header |-> header, data |-> data]
    /\ pc' = "read_rinex_nav"
    /\ reader' = "none"
    /\ header_content' = <<>>
    /\ data_content' = <<>>
    /\ header' = EmptyDict
    /\ lines' = <<>>
    /\ i' = 0
    /\ data' = EmptyDict
    /\ exc' = "none"
    /\ trace' = <<>>
    /\ UNCHANGED <<content, records, records_by_system>>
    /\ UNCHANGED field_vars
    /\ UNCHANGED query_vars
    /\ UNCHANGED kepler
    /\ UNCHANGED gps_time

\* read_rinex_nav once more: the file is opened and read again, a new reader
\* is constructed with self.header = {} and self.data = {}, and _parse_data
\* starts from its own records = [] / records_by_system = {}
ReadAgain ==
    /\ pc \in {"returned", "raised"}
    /\ previous = NotRead
    /\ previous' = [exc |-> exc, header |-> header, data |-> data]
    /\ pc' = "read_rinex_nav"
    /\ reader' = "none"
    /\ header_content' = <<>>
    /\ data_content' = <<>>
    /\ header' = EmptyDict
    /\ lines' = <<>>
    /\ i' = 0
    /\ records' = <<>>
    /\ records_by_system' = EmptyDict
    /\ data' = EmptyDict
    /\ exc' = "none"
    /\ trace' = <<>>
    /\ UNCHANGED content
    /\ UNCHANGED field_vars
    /\ UNCHANGED query_vars
    /\ UNCHANGED kepler
    /\ UNCHANGED gps_time

NextTwice ==
    \/ Next
    \/ ReadAgain

SpecTwice == Init /\ [][NextTwice]_vars

(***************************************************************************)
(* The numeric parsers applied to one field                                *)
(***************************************************************************)
InitField ==
    /\ field \in Fields
    /\ value_str = FieldText(field)
    /\ pc = "_parse_rinex_float"
    /\ rinex_float = NotCalled
    /\ sci_notation = NotCalled
    /\ content = <<>>
    /\ reader = "none"
    /\ header_content = <<>>
    /\ data_content = <<>>
    /\ header = EmptyDict
    /\ lines = <<>>
    /\ i = 0
    /\ records = <<>>
    /\ records_by_system = EmptyDict
    /\ data = EmptyDict
    /\ exc = "none"
    /\ trace = <<>>
    /\ nav_data = <<>>
    /\ sat_system = ""
    /\ prn = 0
    /\ time = <<1, 1, 1, 0, 0, 0, 0>>
    /\ returns = <<>>
    /\ kepler = [M |-> 0, e |-> 0, E |-> 0, n |-> 0]
    /\ previous = NotRead
    /\ gps_time = [dt |-> 0, week |-> 0, sow |-> 0, back |-> 0]

\* Rinex2NavReader: self._parse_rinex_float(field)
CallParseRinexFloat ==
    /\ pc = "_parse_rinex_float"
    /\ rinex_float' = ParseRinexFloat(value_str)
    /\ pc' = "parse_sci_notation"
    /\ UNCHANGED <<field, value_str, sci_notation>>
    /\ UNCHANGED file_vars
    /\ UNCHANGED query_vars
    /\ UNCHANGED kepler
    /\ UNCHANGED <<previous, gps_time>>

\* Rinex3NavReader: parse_sci_notation(field.strip())
CallParseSciNotation ==
    /\ pc = "parse_sci_notation"
    /\ sci_notation' = ParseSciNotation(Strip(value_str))
    /\ pc' = "parsed"
    /\ UNCHANGED <<field, value_str, rinex_float>>
    /\ UNCHANGED file_vars
    /\ UNCHANGED query_vars
    /\ UNCHANGED kepler
    /\ UNCHANGED <<previous, gps_time>>

NextField ==
    \/ CallParseRinexFloat
    \/ CallParseSciNotation

SpecField == InitField /\ [][NextField]_vars

(***************************************************************************)
(* Calls of interpolate_orbit and compute_sv_clock_correction              *)
(***************************************************************************)
InitQuery ==
    /\ nav_data \in Tables
    /\ sat_system \in SatSystems
    /\ prn \in Prns
    /\ time \in Times
    /\ returns = <<>>
    /\ kepler = [M |-> 0, e |-> 0, E |-> 0, n |-> 0]
    /\ previous = NotRead
    /\ gps_time = [dt |-> 0, week |-> 0, sow |-> 0, back |-> 0]
    /\ pc = "first_call"
    /\ content = <<>>
    /\ reader = "none"
    /\ header_content = <<>>
    /\ data_content = <<>>
    /\ header = EmptyDict
    /\ lines = <<>>
    /\ i = 0
    /\ records = <<>>
    /\ records_by_system = EmptyDict
    /\ data = EmptyDict
    /\ exc = "none"
    /\ trace = <<>>
    /\ field = NoField
    /\ value_str = ""
    /\ rinex_float = NotCalled
    /\ sci_notation = NotCalled

\* the caller goes on after a call of fn, whether it returned or raised, and
\* calls it once more with the same arguments
AfterCall(fn) ==
    /\ pc \in {"first_call", "second_call"}
    /\ pc = "second_call" => returns[1].fn = fn
    /\ pc' = IF pc = "first_call" THEN "second_call" ELSE "called"
    /\ UNCHANGED <<nav_data, sat_system, prn, time>>
    /\ UNCHANGED file_vars
    /\ UNCHANGED field_vars
    /\ UNCHANGED kepler
    /\ UNCHANGED <<previous, gps_time>>

\* interpolate_orbit(nav_data, time, sat_system, prn)
InterpolateOrbit ==
    /\ \E closest_row \in ClosestRows(nav_data, prn, time) :
         \E current_week \in CurrentWeeks :
            returns' = Append(returns,
                [fn |-> "interpolate_orbit",
                 out |-> InterpolateOrbitOf(nav_data, time, sat_system, prn,
                                            closest_row, current_week)])
    /\ AfterCall("interpolate_orbit")

\* compute_sv_clock_correction(nav_data, time, sat_system, prn)
ComputeSvClockCorrection ==
    /\ \E closest_row \in ClosestRows(nav_data, prn, time) :
         \E current_week \in CurrentWeeks :
            returns' = Append(returns,
                [fn |-> "compute_sv_clock_correction",
                 out |-> ComputeSvClockCorrectionOf(nav_data, time, sat_system, prn,
                                                    closest_row, current_week)])
    /\ AfterCall("compute_sv_clock_correction")

NextQuery ==
    \/ InterpolateOrbit
    \/ ComputeSvClockCorrection

SpecQuery == InitQuery /\ [][NextQuery]_vars

(***************************************************************************)
(* The loop that solves Kepler's equation                                  *)
(***************************************************************************)
InitKepler ==
    /\ kepler \in {[M |-> M, e |-> e, E |-> M, n |-> 0] :
                      M \in MeanAnomalies, e \in Eccentricities}
    /\ pc = "kepler_loop"
    /\ previous = NotRead
    /\ gps_time = [dt |-> 0, week |-> 0, sow |-> 0, back |-> 0]
    /\ nav_data = <<>>
    /\ sat_system = ""
    /\ prn = 0
    /\ time = <<1, 1, 1, 0, 0, 0, 0>>
    /\ returns = <<>>
    /\ content = <<>>
    /\ reader = "none"
    /\ header_content = <<>>
    /\ data_content = <<>>
    /\ header = EmptyDict
    /\ lines = <<>>
    /\ i = 0
    /\ records = <<>>
    /\ records_by_system = EmptyDict
    /\ data = EmptyDict
    /\ exc = "none"
    /\ trace = <<>>
    /\ field = NoField
    /\ value_str = ""
    /\ rinex_float = NotCalled
    /\ sci_notation = NotCalled

\* an iteration that ends at `break`: E keeps its value
KeplerBreak ==
    /\ pc = "kepler_loop"
    /\ Converged(ENext(kepler.M, kepler.e, kepler.E), kepler.E)
    /\ kepler' = [kepler EXCEPT !.n = @ + 1]
    /\ pc' = "kepler_solved"
    /\ UNCHANGED <<file_vars, field_vars, query_vars>>
    /\ UNCHANGED <<previous, gps_time>>

\* an iteration that ends at E = E_next, the last one if it is the tenth
KeplerAssign ==
    /\ pc = "kepler_loop"
    /\ ~Converged(ENext(kepler.M, kepler.e, kepler.E), kepler.E)
    /\ kepler' = [kepler EXCEPT !.E = ENext(kepler.M, kepler.e, kepler.E), !.n = @ + 1]
    /\ pc' = IF LoopEnds(kepler.n + 1) THEN "kepler_solved" ELSE "kepler_loop"
    /\ UNCHANGED <<file_vars, field_vars, query_vars>>
    /\ UNCHANGED <<previous, gps_time>>

NextKepler ==
    \/ KeplerBreak
    \/ KeplerAssign

SpecKepler == InitKepler /\ [][NextKepler]_vars

(***************************************************************************)
(* A datetime to GPS time and back                                         *)
(***************************************************************************)
InitGpsTime ==
    /\ gps_time \in {[dt |-> dt, week |-> 0, sow |-> 0, back |-> 0] : dt \in Datetimes}
    /\ pc = "datetime_to_gps_time"
    /\ previous = NotRead
    /\ kepler = [M |-> 0, e |-> 0, E |-> 0, n |-> 0]
    /\ nav_data = <<>>
    /\ sat_system = ""
    /\ prn = 0
    /\ time = <<1, 1, 1, 0, 0, 0, 0>>
    /\ returns = <<>>
    /\ content = <<>>
    /\ reader = "none"
    /\ header_content = <<>>
    /\ data_content = <<>>
    /\ header = EmptyDict
    /\ lines = <<>>
    /\ i = 0
    /\ records = <<>>
    /\ records_by_system = EmptyDict
    /\ data = EmptyDict
    /\ exc = "none"
    /\ trace = <<>>
    /\ field = NoField
    /\ value_str = ""
    /\ rinex_float = NotCalled
    /\ sci_notation = NotCalled

\* week, sow = datetime_to_gps_time(dt)
CallDatetimeToGpsTime ==
    /\ pc = "datetime_to_gps_time"
    /\ gps_time' = [gps_time EXCEPT !.week = DatetimeToGpsTime(gps_time.dt).week,
                                    !.sow = DatetimeToGpsTime(gps_time.dt).sow]
    /\ pc' = "gps_time_to_datetime"
    /\ UNCHANGED <<file_vars, field_vars, query_vars, kepler, previous>>

\* gps_time_to_datetime(week, sow)
CallGpsTimeToDatetime ==
    /\ pc = "gps_time_to_datetime"
    /\ gps_time' = [gps_time EXCEPT !.back = GpsEpochPlus(gps_time.week, gps_time.sow)]
    /\ pc' = "converted"
    /\ UNCHANGED <<file_vars, field_vars, query_vars, kepler, previous>>

NextGpsTime ==
    \/ CallDatetimeToGpsTime
    \/ CallGpsTimeToDatetime

SpecGpsTime == InitGpsTime /\ [][NextGpsTime]_vars

(***************************************************************************)
(* The queries on a store, one after another                               *)
(***************************************************************************)
\* the PRNs interpolate_orbit and compute_sv_clock_correction are asked for
QueryPrns == {1, 3}

InitDop ==
    /\ data \in Stores
    /\ header = Rinex2ParseHeader(SubSeq(rinex2_content, 1, 4) \o <<"">>).header
    /\ time \in DopTimes
    /\ returns = <<>>
    /\ pc = "first_query"
    /\ nav_data = <<>>
    /\ sat_system = ""
    /\ prn = 0
    /\ kepler = [M |-> 0, e |-> 0, E |-> 0, n |-> 0]
    /\ previous = NotRead
    /\ gps_time = [dt |-> 0, week |-> 0, sow |-> 0, back |-> 0]
    /\ content = <<>>
    /\ reader = "none"
    /\ header_content = <<>>
    /\ data_content = <<>>
    /\ lines = <<>>
    /\ i = 0
    /\ records = <<>>
    /\ records_by_system = EmptyDict
    /\ exc = "none"
    /\ trace = <<>>
    /\ field = NoField
    /\ value_str = ""
    /\ rinex_float = NotCalled
    /\ sci_notation = NotCalled

\* the caller goes on after a query, whether it returned or raised
AfterQuery ==
    /\ pc' = IF pc = "first_query" THEN "second_query" ELSE "queried"
    /\ UNCHANGED <<content, reader, header_content, data_content, header, lines, i,
                   records, records_by_system, exc, trace>>
    /\ UNCHANGED field_vars
    /\ UNCHANGED <<nav_data, sat_system, prn, time>>
    /\ UNCHANGED kepler
    /\ UNCHANGED <<previous, gps_time>>

\* interpolate_orbit(nav_data[sys], time, sys, prn) on a table of the store
StoreInterpolateOrbit ==
    /\ pc \in {"first_query", "second_query"}
    /\ \E sys \in DOMAIN data :
       \E p \in QueryPrns :
       \E closest_row \in ClosestRows(data[sys], p, time) :
       \E current_week \in CurrentWeeks :
          /\ returns' = Append(returns,
                 [fn |-> "interpolate_orbit", args |-> Sat(sys, p),
                  out |-> InterpolateOrbitOf(data[sys], time, sys, p, closest_row, current_week)])
          /\ data' = Put(data, sys, NavDataAfter(data[sys], p))
    /\ AfterQuery

\* compute_sv_clock_correction(nav_data[sys], time, sys, prn) on a table of the store
StoreComputeSvClockCorrection ==
    /\ pc \in {"first_query", "second_query"}
    /\ \E sys \in DOMAIN data :
       \E p \in QueryPrns :
       \E closest_row \in ClosestRows(data[sys], p, time) :
       \E current_week \in CurrentWeeks :
          /\ returns' = Append(returns,
                 [fn |-> "compute_sv_clock_correction", args |-> Sat(sys, p),
                  out |-> ComputeSvClockCorrectionOf(data[sys], time, sys, p, closest_row, current_week)])
          /\ data' = Put(data, sys, NavDataAfter(data[sys], p))
    /\ AfterQuery

\* compute_dop_values(nav_data, receiver_pos, time, visible_sats)
ComputeDopValues ==
    /\ pc \in {"first_query", "second_query"}
    /\ \E visible_sats \in VisibleSats :
       \E sat_positions \in SatPositions(data, time, ListOf(data, visible_sats)) :
       \E inv \in {"Q", "LinAlgError"} :
          /\ returns' = Append(returns,
                 [fn |-> "compute_dop_values", args |-> visible_sats,
                  out |-> ComputeDopValuesOf(data, visible_sats, sat_positions, inv)])
          /\ data' = StoreAfter(data, ListOf(data, visible_sats))
    /\ AfterQuery

NextDop ==
    \/ StoreInterpolateOrbit
    \/ StoreComputeSvClockCorrection
    \/ ComputeDopValues

SpecDop == InitDop /\ [][NextDop]_vars

(***************************************************************************)
(* Every loop of the program, each scheduled until it ends                 *)
(***************************************************************************)
InitLoops == Init \/ InitKepler

NextLoops == Next \/ NextKepler

\* a step is possible exactly where the run has not ended
Running == pc \notin {"returned", "raised", "kepler_solved"}

\* nothing but the loop itself ends a loop: the interpreter does not withhold
\* the next step for ever. This is weak fairness of NextLoops, with Running
\* for the states where NextLoops can take a step
SpecLoops == InitLoops /\ [][NextLoops]_vars /\ (<>[]Running => []<><<NextLoops>>_vars)

(***************************************************************************)
(* Properties                                                              *)
(***************************************************************************)
\* the version written in the version field, in hundredths (-1: not a number)
VersionHundredths(text) ==
    CASE text = "     2.11" -> 211 [] text = "     2.00" -> 200 [] text = "     2.99" -> 299
      [] text = "     3.00" -> 300 [] text = "     3.04" -> 304 [] text = "     4.00" -> 400
      [] text = "     1.00" -> 100 [] OTHER -> -1

\* the lines of the file that contain END OF HEADER in any letter case
MarkerLines == {n \in 1..Len(content) : Contains(Upper(content[n]), "END OF HEADER")}

\* the lines of a text, whether or not its last line has a terminator
LinesOf(text) ==
    IF text # <<>> /\ text[Len(text)] = "" THEN SubSeq(text, 1, Len(text) - 1) ELSE text

\* C1: once read_rinex_nav has chosen, the reader is Rinex2NavReader for every
\* first-line version v with 2.0 <= v < 3.0 and Rinex3NavReader for every v >= 3.0
\* (3.04 and 4.00 included), whatever the rest of the file holds.
C1_VersionSelectsReader ==
    LET h == VersionHundredths(Slice(content[1], 0, 9))
    IN  pc # "read_rinex_nav" =>
            /\ (h >= 200 /\ h < 300) => reader = "Rinex2NavReader"
            /\ h >= 300 => reader = "Rinex3NavReader"

C1_Witness ==
    /\ pc = "returned"
    /\ reader = "Rinex3NavReader"
    /\ VersionHundredths(Slice(content[1], 0, 9)) = 400

\* C2: if some line of the file contains END OF HEADER (in any letter case), then
\* once _read_file has run the header is every line up to and including the first
\* such line and the data section is every line after it, also when that line has
\* no line terminator or nothing follows it.
C2_SplitAtFirstMarker ==
    (MarkerLines # {} /\ reader # "none" /\ pc # "_read_file") =>
        /\ LinesOf(header_content) = SubSeq(content, 1, SetMin(MarkerLines))
        /\ LinesOf(data_content) = LinesOf(SubSeq(content, SetMin(MarkerLines) + 1, Len(content)))

\* C3: when no line of the file contains END OF HEADER, read_rinex_nav ends by
\* raising ValueError out of _read_file, with no header item, no record and no
\* table produced.
C3_NoMarkerFailsFirst ==
    MarkerLines = {} =>
        /\ pc \in {"read_rinex_nav", "_read_file", "raised"}
        /\ pc = "raised" => exc = "ValueError"
        /\ header = EmptyDict /\ data = EmptyDict
        /\ records = <<>> /\ records_by_system = EmptyDict /\ trace = <<>>

C3_Witness ==
    /\ MarkerLines = {}
    /\ reader # "none"
    /\ pc = "raised"
    /\ exc = "ValueError"

\* the END OF HEADER lines that end with a line terminator
TerminatedMarkerLines == {n \in MarkerLines : n < Len(content)}

\* C4: for a file whose first-line version is a number >= 2.0 and that has an
\* END OF HEADER line (here even: one that ends with a line terminator),
\* read_rinex_nav never ends by raising: whatever the LEAP SECONDS count, the
\* PRN, date and time columns and the length of the last block are, the parse
\* runs to completion.
C4_ParseCompletes ==
    (VersionHundredths(Slice(content[1], 0, 9)) >= 200 /\ TerminatedMarkerLines # {})
        => pc # "raised"

\* the entry appended by the n-th iteration of the record loop
EntryOf(n) ==
    LET sys == trace[n].sys
        k == Cardinality({m \in 1..n : trace[m].did = "record" /\ trace[m].sys = sys})
    IN  IF reader = "Rinex2NavReader" THEN records[k] ELSE records_by_system[sys][k]

\* the value an entry holds under a name (NaN: the table has no value there)
ValueIn(entry, name) == IF name \in DOMAIN entry THEN entry[name] ELSE NaN

\* the text at slot k (0..3) of continuation line j of the block of width lines
\* that starts at lines[at], "" where the block has no such position: the
\* position is blank, or beyond the end of a short line, of the block or of the
\* file
SlotText(at, j, k, first_col, width) ==
    IF j < width /\ at + j < Len(lines)
    THEN Strip(Slice(lines[at + j + 1], first_col + 19 * k, first_col + 19 * (k + 1)))
    ELSE ""

\* the value of a field text as the chosen reader converts one field
SlotValue(text) ==
    IF text = "" THEN NaN
    ELSE IF reader = "Rinex2NavReader" THEN ValueOrNaN(ParseRinexFloat(text))
    ELSE ValueOrNaN(ParseSciNotation(text))

\* C5: every named parameter of every emitted entry holds the value of the
\* 19-character field at the parameter's own position in the block (its
\* continuation line and its slot on that line), or NaN when that position is
\* blank or beyond the end of a short line: a blank or short continuation line
\* shifts no later field to another name.
C5_FieldsByPosition ==
    \A n \in 1..Len(trace) :
        trace[n].did = "record" =>
            IF reader = "Rinex2NavReader"
            THEN \A p \in 1..Len(param_names) :
                    ValueIn(EntryOf(n), param_names[p])
                        = SlotValue(SlotText(trace[n].at, ((p - 1) \div 4) + 1, (p - 1) % 4, 3, 8))
            ELSE \A m \in 1..Len(SystemFields(trace[n].sys)) :
                    ValueIn(EntryOf(n), SystemFields(trace[n].sys)[m][1])
                        = SlotValue(SlotText(trace[n].at,
                                             (SystemFields(trace[n].sys)[m][2] \div 4) + 1,
                                             SystemFields(trace[n].sys)[m][2] % 4, 4,
                                             NumLines(trace[n].sys)))

\* the PRN and the epoch written on the first line of a v3/v4 block (PRN -1: the
\* columns do not hold a satellite and a date)
WrittenOn(first_line) ==
    CASE Slice(first_line, 0, 23) = "G31 2022 01 01 00 00 00" ->
            [PRN |-> 31, Epoch |-> <<2022, 1, 1, 0, 0, 0, 0>>]
      [] Slice(first_line, 0, 23) = "C01 2021 12 31 23 00 00" ->
            [PRN |-> 1, Epoch |-> <<2021, 12, 31, 23, 0, 0, 0>>]
      [] Slice(first_line, 0, 23) = "R05 2021 12 31 23 45 00" ->
            [PRN |-> 5, Epoch |-> <<2021, 12, 31, 23, 45, 0, 0>>]
      [] Slice(first_line, 0, 23) = "S20 2021 12 31 23 45 00" ->
            [PRN |-> 20, Epoch |-> <<2021, 12, 31, 23, 45, 0, 0>>]
      [] Slice(first_line, 0, 23) = "E11 2022 01 01 00 00 00" ->
            [PRN |-> 11, Epoch |-> <<2022, 1, 1, 0, 0, 0, 0>>]
      [] Slice(first_line, 0, 23) = "J01 2022 01 01 00 00 00" ->
            [PRN |-> 1, Epoch |-> <<2022, 1, 1, 0, 0, 0, 0>>]
      [] OTHER -> [PRN |-> -1, Epoch |-> <<>>]

\* the lines of the file after its first terminated END OF HEADER line
DataLines == LinesOf(SubSeq(content, SetMin(TerminatedMarkerLines) + 1, Len(content)))

\* a first line of a block starts with the letter of its constellation
IsRecordStart(line) == line # "" /\ Ch(line, 1) # " "

RecordStarts(ls) == {n \in 1..Len(ls) : IsRecordStart(ls[n])}

\* the lines of a block: 4 for GLONASS and SBAS, 8 for every other constellation
BlockWidth(first_line) == IF Ch(first_line, 1) \in {"R", "S"} THEN 4 ELSE 8

\* ls is one or more consecutive well-formed blocks
WellFormedBlocks(ls) ==
    /\ ls # <<>>
    /\ IsRecordStart(ls[1])
    /\ \A n \in RecordStarts(ls) :
          /\ WrittenOn(ls[n]).PRN >= 0
          /\ n + BlockWidth(ls[n]) - 1 <= Len(ls)
          /\ \A j \in 1..(BlockWidth(ls[n]) - 1) :
                ~IsRecordStart(ls[n + j]) /\ Strip(ls[n + j]) # ""
          /\ n + BlockWidth(ls[n]) <= Len(ls) => IsRecordStart(ls[n + BlockWidth(ls[n])])

\* the first lines of the blocks of constellation c, and the k-th of them
StartsOf(ls, c) == {n \in RecordStarts(ls) : Ch(ls[n], 1) = c}

KthStart(ls, c, k) ==
    CHOOSE n \in StartsOf(ls, c) : Cardinality({m \in StartsOf(ls, c) : m <= n}) = k

\* C6: in a v3/v4 file whose data section is consecutive well-formed blocks (4
\* lines for R and S, 8 for every other constellation) the parse does not
\* raise, every iteration of the record loop starts on the first line of a
\* block and emits a record, and the returned store holds per constellation
\* exactly one entry per block of that constellation, in file order, with the
\* PRN and epoch written on the block's first line; the sample file yields one
\* entry each under G, C and R with PRN 31, 1 and 5.
C6_OneEntryPerBlock ==
    /\ (reader = "Rinex3NavReader" /\ TerminatedMarkerLines # {}) =>
          LET ls == DataLines
          IN  WellFormedBlocks(ls) =>
                /\ pc # "raised"
                /\ pc = "loop" =>
                      /\ \A n \in 1..Len(trace) : trace[n].did = "record"
                      /\ {trace[n].at + 1 : n \in 1..Len(trace)}
                             = {n \in RecordStarts(ls) : n <= i}
                /\ pc = "returned" =>
                      /\ DOMAIN data = {Ch(ls[n], 1) : n \in RecordStarts(ls)}
                      /\ \A c \in DOMAIN data :
                            /\ Len(data[c]) = Cardinality(StartsOf(ls, c))
                            /\ \A k \in 1..Len(data[c]) :
                                  /\ data[c][k].PRN = WrittenOn(ls[KthStart(ls, c, k)]).PRN
                                  /\ data[c][k].Epoch = WrittenOn(ls[KthStart(ls, c, k)]).Epoch
    /\ (content = rinex3_content /\ pc = "returned") =>
          /\ DOMAIN data = {"G", "C", "R"}
          /\ Len(data["G"]) = 1 /\ data["G"][1].PRN = 31
          /\ Len(data["C"]) = 1 /\ data["C"][1].PRN = 1
          /\ Len(data["R"]) = 1 /\ data["R"][1].PRN = 5

\* a GPS block read after a 4-line SBAS block, both emitted
C6_Witness ==
    /\ pc = "returned"
    /\ reader = "Rinex3NavReader"
    /\ TerminatedMarkerLines # {}
    /\ WellFormedBlocks(DataLines)
    /\ DOMAIN data = {"S", "G"}
    /\ RecordStarts(DataLines) = {1, 5}
    /\ Len(data["S"]) = 1 /\ data["S"][1].PRN = 20
    /\ Len(data["G"]) = 1 /\ data["G"][1].PRN = 31

\* a field that is written but holds no digit: nothing reads a number from it
NoNumber(text) == Strip(text) # "" /\ \A p \in 1..Len(text) : ~IsDigit(Ch(text, p))

\* the three clock fields of the first line of the block at lines[at], as the
\* chosen reader cuts them
ClockText(at, c) ==
    IF reader = "Rinex2NavReader"
    THEN Slice(RStrip(lines[at + 1]), 22 + 19 * (c - 1), 41 + 19 * (c - 1))
    ELSE Strip(Slice(lines[at + 1], 23 + 19 * (c - 1), 42 + 19 * (c - 1)))

ClockNames == <<"SV_clock_bias", "SV_clock_drift", "SV_clock_drift_rate">>

\* what a field is to be stored as: NaN if it holds no number, else its value
FieldOrNaN(text) ==
    IF NoNumber(text) THEN NaN
    ELSE IF reader = "Rinex2NavReader" THEN ValueOrNaN(ParseRinexFloat(text))
    ELSE ValueOrNaN(ParseSciNotation(text))

\* the names stored from slot k of the first continuation line
FirstLineNames(sys, k) ==
    IF reader = "Rinex2NavReader" THEN {param_names[k + 1]}
    ELSE {SystemFields(sys)[m][1] : m \in {q \in 1..Len(SystemFields(sys)) : SystemFields(sys)[q][2] = k}}

\* C7: in every emitted entry, of either parser, a clock field or a field of the
\* first continuation line whose text holds no number is stored as NaN, for
\* exactly that field: the other clock fields and the other fields of that line
\* keep the values parsed from their own texts.
C7_UnparseableFieldIsNaN ==
    \A n \in 1..Len(trace) :
        trace[n].did = "record" =>
            /\ \A c \in 1..3 :
                  EntryOf(n)[ClockNames[c]] = FieldOrNaN(ClockText(trace[n].at, c))
            /\ \A k \in 0..3 :
                  \A name \in FirstLineNames(trace[n].sys, k) :
                      SlotText(trace[n].at, 1, k, IF reader = "Rinex2NavReader" THEN 3 ELSE 4, 4) # ""
                          => EntryOf(n)[name]
                                = FieldOrNaN(SlotText(trace[n].at, 1, k,
                                                      IF reader = "Rinex2NavReader" THEN 3 ELSE 4, 4))

\* C8: whatever the mantissa, the exponent and the character after the exponent
\* are, _parse_rinex_float returns: it never raises.
C8_NeverRaises ==
    pc \in {"parse_sci_notation", "parsed"} => rinex_float.exc = "none"

RECURSIVE DigitValue(_)
DigitValue(ds) ==
    IF ds = <<>> THEN 0 ELSE 10 * DigitValue(SubSeq(ds, 1, Len(ds) - 1)) + ds[Len(ds)]

\* the number a field writes: its mantissa times ten to its signed exponent
Written(f) ==
    MkFloat(f.mantissa.s, f.mantissa.digits,
            (IF f.sign = "-" THEN -1 ELSE 1) * DigitValue(f.digits) - f.mantissa.nf)

\* C9: a field written as a mantissa, D, an optional space, the sign and the
\* digits of the exponent is stored as mantissa x 10^exponent by the v2 parser
\* and by the v3/v4 parser alike ("1.234567890D-01" as 0.123456789,
\* "-1.234567890D+01" as -12.3456789, "1.0D +05" as 100000.0).
C9_SameValueInBothParsers ==
    (pc = "parsed" /\ field.letter \in {"D", "D "} /\ field.sign \in {"+", "-"}
                   /\ field.trailing = "") =>
        /\ rinex_float = Returned(Written(field))
        /\ sci_notation = Returned(Written(field))

\* the line of the file that lines[at + 1] was read from
FileLine(at) ==
    data_content[SetMin({n \in 1..Len(data_content) : Strip(data_content[n]) # ""}) + at]

\* C10: every emitted v2 entry, the first one included, holds the PRN of columns
\* 0-1, the epoch of the yy mm dd hh mm ss.s columns and the three clock terms
\* of the 19-character fields at columns 22, 41 and 60 of the block's first line
\* as it stands in the file; the first entry of the sample file is PRN 1 at
\* 2002-01-01T00:00:00 with bias 4.691267386079e-04 and drift -1.000444171950e-11.
C10_FirstLineColumns ==
    /\ reader = "Rinex2NavReader" =>
          \A n \in 1..Len(trace) :
              trace[n].did = "record" =>
                  /\ EntryOf(n).PRN = PyInt(Slice(FileLine(trace[n].at), 0, 2)).v
                  /\ EntryOf(n).Epoch[2] = PyInt(Slice(FileLine(trace[n].at), 6, 8)).v
                  /\ EntryOf(n).Epoch[3] = PyInt(Slice(FileLine(trace[n].at), 9, 11)).v
                  /\ EntryOf(n).Epoch[4] = PyInt(Slice(FileLine(trace[n].at), 12, 14)).v
                  /\ EntryOf(n).Epoch[5] = PyInt(Slice(FileLine(trace[n].at), 15, 17)).v
                  /\ \A c \in 1..3 :
                        EntryOf(n)[ClockNames[c]]
                            = ParseRinexFloat(Slice(FileLine(trace[n].at),
                                                    22 + 19 * (c - 1), 41 + 19 * (c - 1))).v
    /\ (content = rinex2_content /\ pc = "returned") =>
          /\ data["G"][1].PRN = 1
          /\ data["G"][1].Epoch = <<2002, 1, 1, 0, 0, 0, 0>>
          /\ data["G"][1].SV_clock_bias = [k |-> "num", s |-> 1, d |-> "4691267386079", x |-> -3]
          /\ data["G"][1].SV_clock_drift = [k |-> "num", s |-> -1, d |-> "100044417195", x |-> -10]

\* the fields of a GLONASS entry that describe its state vector
GlonassStateVector ==
    {"X", "Y", "Z", "X_velocity", "Y_velocity", "Z_velocity",
     "X_acceleration", "Y_acceleration", "Z_acceleration",
     "health", "frequency_number", "Age"}

\* the block at lines[at] has three continuation lines of four numbers each
CompleteGlonass(at) ==
    \A j \in 1..3 : \A k \in 0..3 :
        /\ SlotText(at, j, k, 4, 4) # ""
        /\ ~NoNumber(SlotText(at, j, k, 4, 4))
        /\ SlotValue(SlotText(at, j, k, 4, 4)) # NaN

\* C11: the entry emitted for a complete v3/v4 GLONASS record (first line and
\* three continuation lines of four numbers each) holds a value other than NaN
\* under every state-vector name: positions, velocities and accelerations in X,
\* Y and Z, health, frequency_number and Age.
C11_GlonassStateVectorPresent ==
    \A n \in 1..Len(trace) :
        (reader = "Rinex3NavReader" /\ trace[n].did = "record" /\ trace[n].sys = "R"
            /\ CompleteGlonass(trace[n].at)) =>
                \A name \in GlonassStateVector : ValueIn(EntryOf(n), name) # NaN

\* epochs compared as dates: a <= b
RECURSIVE EpochLE(_, _)
EpochLE(a, b) ==
    IF a = <<>> THEN TRUE
    ELSE IF Head(a) # Head(b) THEN Head(a) < Head(b)
    ELSE EpochLE(Tail(a), Tail(b))

\* C12: once the parse has returned, the entries of every constellation are in
\* non-decreasing Toc order, whatever the order of the records in the file.
C12_StoreSortedByToc ==
    pc = "returned" =>
        \A c \in DOMAIN data :
            \A a \in 1..Len(data[c]) : \A b \in a..Len(data[c]) :
                EpochLE(data[c][a].Toc, data[c][b].Toc)

\* the calls that returned a value
Computed == {c \in 1..Len(returns) : returns[c].out.exc = "none"}

\* the entries of the queried PRN whose Toc is not after the query time
NotAfterQuery ==
    {n \in 1..Len(nav_data) : nav_data[n].PRN = prn /\ EpochLE(nav_data[n].Toc, time)}

\* the entries a query has to be computed from: those of the greatest Toc
Applicable ==
    {n \in NotAfterQuery : \A m \in NotAfterQuery : EpochLE(nav_data[m].Toc, nav_data[n].Toc)}

\* C13: whatever the order of the table, what interpolate_orbit and
\* compute_sv_clock_correction return is computed from an entry of the queried
\* PRN whose Toc is the greatest among those not after the query time
C13_GreatestTocNotAfter ==
    \A c \in Computed : \E n \in Applicable : returns[c].out.closest_row = nav_data[n]

\* both functions returned a value for a table that lists a later entry of the
\* PRN before the applicable one, and an entry of another PRN
C13_Witness ==
    /\ pc = "called" /\ Computed = {1, 2}
    /\ Len(nav_data) = 2
    /\ Applicable = {2}
    /\ nav_data[1].PRN = prn /\ ~EpochLE(nav_data[1].Toc, time)

\* the calls that get as far as the selection of the entry: those of
\* compute_sv_clock_correction, and those of interpolate_orbit for G and J
Selecting ==
    {c \in 1..Len(returns) :
        returns[c].fn = "compute_sv_clock_correction" \/ sat_system \in {"G", "J"}}

\* C14: when the table has entries of the queried PRN and all of them have a
\* Toc after the query time, the call fails with the missing-data error it
\* fails with when the table has no entry of that PRN
C14_AllLaterIsMissingData ==
    \A c \in Selecting :
        ((\E n \in 1..Len(nav_data) : nav_data[n].PRN = prn) /\ NotAfterQuery = {})
            => /\ returns[c].out.exc = "ValueError"
               /\ returns[c].out.msg = "No navigation data found"

\* the calls of a function
CallsOf(fn) == {c \in 1..Len(returns) : returns[c].fn = fn}

\* C15: interpolate_orbit for a system other than G and J (R, E, C, I, S)
\* fails with the not-supported ValueError, whatever the table holds
C15_OrbitOnlyForGpsQzss ==
    \A c \in CallsOf("interpolate_orbit") :
        sat_system \notin {"G", "J"}
            => /\ returns[c].out.exc = "ValueError"
               /\ returns[c].out.msg = "not supported yet"

\* interpolate_orbit was refused for R on a table that holds the GLONASS entry
\* parsed from the RINEX 3 sample, queried for its PRN after its Toc
C15_Witness ==
    /\ pc = "called" /\ sat_system = "R" /\ Applicable # {}
    /\ Rinex3Record(GlonassBlock, 0).sat_system = "R"
    /\ \A n \in Applicable : nav_data[n] = Rinex3Record(GlonassBlock, 0).record
    /\ returns[1].fn = "interpolate_orbit"
    /\ returns[1].out.msg = "not supported yet"

\* the fields of an entry interpolate_orbit reads
OrbitFields ==
    {"sqrt_A", "e", "M0", "omega", "OMEGA", "i0", "Delta_n", "Cuc", "Cus", "Crc", "Crs",
     "Cic", "Cis", "IDOT", "OMEGA_DOT", "Toe"}

\* the fields among names the entry has no value for: it lacks them or holds NaN
MissingIn(entry, names) ==
    {name \in names : name \notin DOMAIN entry \/ entry[name] = NaN}

C17_ClockOnlyForGpsQzss ==
    \A c \in CallsOf("compute_sv_clock_correction") :
        sat_system \notin {"G", "J"}
            => /\ returns[c].out.exc = "ValueError"
               /\ returns[c].out.msg = "not supported yet"

\* the days from 0000-03-01 to a date of the proleptic Gregorian calendar
CivilDays(y, m, d) ==
    LET yy == IF m <= 2 THEN y - 1 ELSE y
        mm == IF m <= 2 THEN m + 9 ELSE m - 3
    IN  365 * yy + (yy \div 4) - (yy \div 100) + (yy \div 400)
            + ((153 * mm + 2) \div 5) + d - 1

\* the whole seconds from the datetime a to the datetime b
Elapsed(a, b) ==
    (CivilDays(b[1], b[2], b[3]) - CivilDays(a[1], a[2], a[3])) * 86400
        + (b[4] - a[4]) * 3600 + (b[5] - a[5]) * 60 + (b[6] - a[6])

ClockTerms == {"SV_clock_bias", "SV_clock_drift", "SV_clock_drift_rate"}

RelativisticFields == {"e", "sqrt_A", "Toe", "M0"}

\* C18: compute_sv_clock_correction fails when the entry it has to compute
\* from misses one of the three clock terms; when it has the three of them but
\* misses e, sqrt_A, Toe or M0, the call returns a0 + a1 * dt + a2 * dt^2 of
\* that entry with dt = time - Toc, without the relativistic term
C18_ClockTermsRequiredOrbitOptional ==
    \A c \in CallsOf("compute_sv_clock_correction") :
        /\ (/\ Applicable # {}
            /\ \A n \in Applicable : MissingIn(nav_data[n], ClockTerms) # {})
                => /\ returns[c].out.exc = "ValueError"
                   /\ returns[c].out.msg = "Missing or NaN value"
        /\ (/\ Applicable # {}
            /\ \A n \in Applicable :
                  /\ MissingIn(nav_data[n], ClockTerms) = {}
                  /\ MissingIn(nav_data[n], RelativisticFields) # {})
                => /\ returns[c].out.exc = "none"
                   /\ ~returns[c].out.rel
                   /\ \E n \in Applicable :
                         /\ returns[c].out.closest_row = nav_data[n]
                         /\ returns[c].out.dt = Elapsed(nav_data[n].Toc, time)

\* compute_sv_clock_correction returned for G the polynomial of an entry that
\* misses M0 only, some hours after its Toc
C18_Witness ==
    /\ pc = "called" /\ sat_system = "G" /\ Applicable # {}
    /\ \A n \in Applicable :
          MissingIn(nav_data[n], ClockTerms \cup RelativisticFields) = {"M0"}
    /\ returns[1].fn = "compute_sv_clock_correction"
    /\ returns[1].out.exc = "none"
    /\ ~returns[1].out.rel
    /\ returns[1].out.dt > 0

\* C20: what interpolate_orbit and compute_sv_clock_correction give is a
\* function of their arguments (table, system, PRN, time) only: a call repeated
\* with the same arguments, at whatever moment, gives the same result, also
\* for an entry without any week number
C20_ResultDependsOnArgumentsOnly ==
    pc = "called" => returns[1].out = returns[2].out

\* |M - (E - e * sin E)|, in 1/One
Residual ==
    LET r == kepler.M - (kepler.E - Mul(kepler.e, Sin(kepler.E)))
    IN  IF r < 0 THEN -r ELSE r

\* C19: for e in {0, 0.05, 0.2, 0.6, 0.9} and every M, the iteration
\* E <- M + e * sin E from E = M stops within 10 steps and leaves a residual
\* |M - (E - e * sin E)| below 1e-9, so below 1e-2, which is beyond what the
\* fixed-point arithmetic loses
C19_KeplerConverges ==
    /\ kepler.n <= 10
    /\ pc = "kepler_solved" => Residual * 100 < One

\* the words of a text: its runs of characters other than spaces
RECURSIVE Words(_)
Words(text) ==
    LET t == LStrip(text)
        n == IF Find(t, " ", 1) = 0 THEN Len(t) ELSE Find(t, " ", 1) - 1
    IN  IF t = "" THEN <<>> ELSE <<SubSeq(t, 1, n)>> \o Words(SubSeq(t, n + 1, Len(t)))

\* the number a word writes, D or E before its exponent
Number(word) == PyFloat(ReplaceDE(word)).v

\* the lines of the header with this label in columns 61-80
Labelled(label) ==
    {n \in 2..Len(header_content) : Strip(SliceFrom(header_content[n], 60)) = label}

\* C25: once the header of a v3/v4 file is parsed it holds, for every
\* IONOSPHERIC CORR line, the four numbers written on the line under the name
\* the line starts with, and for every TIME SYSTEM CORR line the a0, a1,
\* reference time and week written on the line
C25_HeaderCorrections ==
    (reader = "Rinex3NavReader" /\ pc \in {"_parse_data", "loop", "returned"}) =>
        /\ \A n \in Labelled("IONOSPHERIC CORR") :
             LET w == Words(Slice(header_content[n], 0, 60))
             IN  /\ "ionospheric_corr" \in DOMAIN header
                 /\ w[1] \in DOMAIN header["ionospheric_corr"]
                 /\ header["ionospheric_corr"][w[1]]
                        = <<Number(w[2]), Number(w[3]), Number(w[4]), Number(w[5])>>
        /\ \A n \in Labelled("TIME SYSTEM CORR") :
             LET w == Words(Slice(header_content[n], 0, 60))
             IN  /\ "time_system_corr" \in DOMAIN header
                 /\ w[1] \in DOMAIN header["time_system_corr"]
                 /\ header["time_system_corr"][w[1]]
                        = [a0 |-> Number(w[2]), a1 |-> Number(w[3]),
                           ref_time |-> PyInt(w[4]).v, ref_week |-> PyInt(w[5]).v]

\* C28: the relativistic term of compute_sv_clock_correction is computed from
\* the mean anomaly interpolate_orbit uses for the same entry and time,
\* M = M0 + (n0 + Delta_n) * (time - toe_datetime): the mean motion has the same
\* terms, unless the term it lacks changes nothing
C28_ClockUsesOrbitAnomaly ==
    \A c \in CallsOf("compute_sv_clock_correction") :
        returns[c].out.rel
            => \/ returns[c].out.n = <<"n0", "Delta_n">>
               \/ returns[c].out.dt_toe = 0
               \/ returns[c].out.closest_row["Delta_n"] = Zero

\* C30: for every datetime dt, before or after 1980-01-06 00:00:00,
\* gps_time_to_datetime of the week and the seconds of week that
\* datetime_to_gps_time(dt) returns is dt
C30_GpsTimeRoundTrip ==
    pc = "converted" => gps_time.back = gps_time.dt

\* the lines the iteration that left the entry `step` of the trace went forward
Advance(step) ==
    IF step.did = "blank" THEN 1
    ELSE IF reader = "Rinex3NavReader" /\ step.sys \in {"R", "S"} THEN 4 ELSE 8

\* the operation has ended
Ended == pc \in {"returned", "raised", "kepler_solved"}

\* an iteration of a record loop: it starts below the last line and goes forward
Iterated ==
    /\ Len(trace') = Len(trace) + 1
    /\ trace'[Len(trace')].at = i
    /\ i < Len(lines)
    /\ i' = i + Advance(trace'[Len(trace')])

\* an iteration of the Kepler loop: one of at most 10, the last one before the
\* tenth only if the next iterate equals the current one
Stepped ==
    /\ kepler'.n = kepler.n + 1
    /\ kepler'.n <= 10
    /\ pc' = "kepler_solved" =>
          \/ kepler'.n = 10
          \/ ENext(kepler.M, kepler.e, kepler.E) = kepler.E /\ kepler'.E = kepler.E

\* C26: every loop ends. An iteration of a record loop moves the line index
\* forward, by 1 on a blank line and by 8 or 4 on a block, so there are never
\* more iterations than data lines; the Kepler loop makes at most 10 steps
\* and stops sooner only when the next iterate equals the current one; and
\* every run comes to an end and stays there
C26_EveryLoopEnds ==
    /\ [][(trace' # trace => Iterated) /\ (kepler' # kepler => Stepped)]_vars
    /\ [](Len(trace) <= Len(lines))
    /\ <>[]Ended

\* a v3/v4 read that ended after iterations on a 4-line block, on a blank line
\* and on an 8-line block, in this order
C26_Witness ==
    /\ pc = "returned"
    /\ reader = "Rinex3NavReader"
    /\ Len(trace) = 3
    /\ trace[1] = [at |-> 0, did |-> "record", sys |-> "R"]
    /\ trace[2] = [at |-> 4, did |-> "blank", sys |-> ""]
    /\ trace[3] = [at |-> 5, did |-> "record", sys |-> "G"]
    /\ i = 13

\* the PRN and the epoch written on the first line of a v2 block (PRN -1: the
\* columns do not hold a satellite and a date)
WrittenOnV2(first_line) ==
    CASE Slice(first_line, 0, 22) = " 1 02  1  1  0  0  0.0" ->
            [PRN |-> 1, Epoch |-> <<2002, 1, 1, 0, 0, 0, 0>>]
      [] Slice(first_line, 0, 22) = " 1 02  1  1  2  0  0.0" ->
            [PRN |-> 1, Epoch |-> <<2002, 1, 1, 2, 0, 0, 0>>]
      [] OTHER -> [PRN |-> -1, Epoch |-> <<>>]

\* the first lines of the v2 blocks with a valid PRN and epoch, among the
\* lines after the header: a continuation line starts with blank columns
ValidStartsV2 ==
    {n \in 1..Len(data_content) :
        Strip(Slice(data_content[n], 0, 3)) # "" /\ WrittenOnV2(data_content[n]).PRN >= 0}

\* the blank lines that data_content.strip() takes from the start of the data
LeadingBlanks == SetMin({n \in 1..Len(data_content) : Strip(data_content[n]) # ""}) - 1

\* the iterations of the record loop that started on line n of the data and
\* appended an entry
RecordsAt(n) ==
    {m \in 1..Len(trace) : trace[m].did = "record" /\ trace[m].at = n - 1 - LeadingBlanks}

\* C27: the v2 store holds exactly one entry for every block whose first line
\* holds a valid PRN and epoch, with that PRN and epoch, whatever the blocks
\* before it are: the record loop starts one iteration on that line
C27_EveryValidBlockOfV2 ==
    (reader = "Rinex2NavReader" /\ pc = "returned") =>
        \A n \in ValidStartsV2 :
            /\ Cardinality(RecordsAt(n)) = 1
            /\ \A m \in RecordsAt(n) :
                  /\ EntryOf(m).PRN = WrittenOnV2(data_content[n]).PRN
                  /\ EntryOf(m).Epoch = WrittenOnV2(data_content[n]).Epoch

Fresh(c) ==
    CASE returns[c].fn = "compute_dop_values" ->
            \E sat_positions \in SatPositions(data, time, ListOf(data, returns[c].args)) :
            \E inv \in {"Q", "LinAlgError"} :
                returns[c].out = ComputeDopValuesOf(data, returns[c].args, sat_positions, inv)
      [] returns[c].fn = "interpolate_orbit" ->
            \E closest_row \in ClosestRows(data[returns[c].args[1]], returns[c].args[2], time) :
            \E current_week \in CurrentWeeks :
                returns[c].out = InterpolateOrbitOf(data[returns[c].args[1]], time, returns[c].args[1],
                                                    returns[c].args[2], closest_row, current_week)
      [] returns[c].fn = "compute_sv_clock_correction" ->
            \E closest_row \in ClosestRows(data[returns[c].args[1]], returns[c].args[2], time) :
            \E current_week \in CurrentWeeks :
                returns[c].out = ComputeSvClockCorrectionOf(data[returns[c].args[1]], time, returns[c].args[1],
                                                            returns[c].args[2], closest_row, current_week)

\* C21: no query changes the store: whichever of interpolate_orbit,
\* compute_sv_clock_correction and compute_dop_values is called, in whatever
\* order, and whether it returns or raises, the header and every table are
\* after the call what they were before it; and every result is what the
\* query computes from the store and its arguments, none is one kept from an
\* earlier call
C21_QueriesLeaveTheStore ==
    /\ [][header' = header /\ data' = data]_vars
    /\ [](\A c \in 1..Len(returns) : Fresh(c))

\* DOP values computed from five satellites, then a propagation that fails
C21_Witness ==
    /\ pc = "queried"
    /\ returns[1].fn = "compute_dop_values"
    /\ returns[1].out.result = "dop"
    /\ Len(returns[1].out.sat_positions) = 5
    /\ returns[2].fn = "interpolate_orbit"
    /\ returns[2].out.exc = "ValueError"
    /\ Len(data["G"]) = 5

\* the satellite has a position at `time`: interpolate_orbit, which takes G and
\* J, returns one from the store's table, and it is a number
HasPosition(sat) ==
    /\ sat[1] \in {"G", "J"}
    /\ sat[1] \in DOMAIN data
    /\ \E n \in 1..Len(data[sat[1]]) : data[sat[1]][n].PRN = sat[2]
    /\ \A closest_row \in ClosestRows(data[sat[1]], sat[2], time) :
       \A current_week \in CurrentWeeks :
          PositionOf(InterpolateOrbitOf(data[sat[1]], time, sat[1], sat[2],
                                        closest_row, current_week)) = "num"

\* every (constellation, PRN) of the tables of G and J
StoreSats ==
    UNION { {Sat(sys, data[sys][n].PRN) : n \in 1..Len(data[sys])} : sys \in {"G", "J"} \cap DOMAIN data }

\* the satellites a call of compute_dop_values is to work on
Asked(visible_sats) ==
    IF visible_sats.given THEN {visible_sats.sats[n] : n \in 1..Len(visible_sats.sats)}
    ELSE StoreSats

\* C23: compute_dop_values returns None and does not raise whenever fewer than
\* 4 of the satellites it is to work on (the listed ones, or those of the
\* store) have a position, also for a table without any entry
C23_FewSatellitesNoResult ==
    \A c \in CallsOf("compute_dop_values") :
        Cardinality({sat \in Asked(returns[c].args) : HasPosition(sat)}) < 4
            => (returns[c].out.exc = "none" /\ returns[c].out.result = "None")

\* C24: a call that does not raise works, without a list, on every satellite of
\* the tables of G and J; with a list, every listed G or J satellite that has
\* a position is among the rows of the geometry
C24_ConsidersGAndJ ==
    \A c \in CallsOf("compute_dop_values") :
        returns[c].out.exc = "none" =>
            /\ ~returns[c].args.given =>
                  {returns[c].out.visible_sats[n] : n \in 1..Len(returns[c].out.visible_sats)}
                      = StoreSats
            /\ returns[c].args.given =>
                  \A sat \in Asked(returns[c].args) :
                      HasPosition(sat) =>
                          \E n \in 1..Len(returns[c].out.sat_positions) :
                              returns[c].out.sat_positions[n] = sat

\* C29: DOP values are given only if at least 4 different satellites have a
\* position, and the geometry has one row per satellite, however often the
\* list names it
C29_DistinctSatellites ==
    \A c \in CallsOf("compute_dop_values") :
        /\ returns[c].out.result = "dop" =>
              Cardinality({returns[c].out.sat_positions[n] :
                              n \in 1..Len(returns[c].out.sat_positions)}) >= 4
        /\ Len(returns[c].out.sat_positions) >= 4 =>
              \A m, n \in 1..Len(returns[c].out.sat_positions) :
                  returns[c].out.sat_positions[m] = returns[c].out.sat_positions[n] => m = n
====
